---- MODULE Spec2Model ----
(***************************************************************************)
(* Model of the realtime collaboration relay, server/realtime-server.mjs.  *)
(*                                                                         *)
(* Scheduling model (Node.js): one event loop.  An event-loop callback     *)
(* (a "message", "close" or "pong" event, a timer, the completion of an    *)
(* awaited I/O) runs to its next awaited I/O without interleaving; the     *)
(* model has one action per such run.  A "message" handler is an async     *)
(* function, so a join_document suspended in an await does not keep the    *)
(* next frame of the same connection from being handled.                   *)
(*                                                                         *)
(* A Y.Doc is modelled as the set of update structs it contains;           *)
(* Y.applyUpdate is set union, Y.encodeStateAsUpdate the whole set.        *)
(***************************************************************************)
EXTENDS Integers, Sequences, FiniteSets, TLC

(***************************************************************************)
(* Program constants                                                       *)
(***************************************************************************)
heartbeatIntervalMs == 5000
heartbeatTimeoutMs == 10000
persistDelayMs == 1000
dbPersistIntervalMs == 5000
opsWindowMs == 60000

(***************************************************************************)
(* Bounds of the model                                                     *)
(***************************************************************************)
\* the clock advances in steps of TimeStep ms, up to MaxTime ms
TimeStep == 5000
MaxTime == 15000
\* frames the clients send in all
MaxFrames == 3
\* Room objects ever created by getRoom
MaxRoomObjs == 3

Conns == {"c1", "c2", "c3"}
\* the connections that send frames, unless a specification says otherwise
Clients == {"c1", "c2"}
\* the order in which the model lets the clients read
ConnOrder == [c1 |-> 1, c2 |-> 2, c3 |-> 3]
Docs == {"d1", "d2"}
Users == {"u1", "u2"}
Updates == {"a", "b"}

(***************************************************************************)
(* Generic helpers for Map-like functions                                  *)
(***************************************************************************)
Put(f, k, v) == [x \in (DOMAIN f) \cup {k} |-> IF x = k THEN v ELSE f[x]]

Del(f, k) == [x \in (DOMAIN f) \ {k} |-> f[x]]

(***************************************************************************)
(* Codec: base64 text of update bytes                                      *)
(***************************************************************************)
\* bytes that are not a well-formed Yjs update
Garbage == "?"

encodeUpdate(update) == [present |-> TRUE, b64 |-> update]

decodeUpdate(payload) == payload.b64

\* a frame field that is absent (or the empty string)
NoPayload == [present |-> FALSE, b64 |-> {}]

\* a Y.applyUpdate that takes any bytes
ApplyThrowsNever(update) == FALSE

\* Y.applyUpdate throws on bytes that are no update
ApplyThrows(update) == Garbage \in update

applyUpdateOverwrite(doc, update) == update

applyUpdate(doc, update) == doc \cup update

encodeStateAsUpdate(doc) == doc

\* one key for every document
getRedisKeyShared(documentId) == <<"doc", "state">>

getRedisKey(documentId) == <<"doc", documentId, "state">>

(***************************************************************************)
(* Session tokens                                                          *)
(***************************************************************************)
\* the claims of each signed token; a token outside the domain has a bad
\* signature or is expired (jwtVerify throws)
TokenClaims ==
  [ tok_u1 |-> [userId |-> "u1", email |-> "u1@x"],
    tok_u2 |-> [userId |-> "u2", email |-> "u2@x"],
    tok_noemail |-> [userId |-> "u1", email |-> ""] ]

NoAuth == [userId |-> "", email |-> ""]

verifyToken(token) ==
  IF token \notin DOMAIN TokenClaims THEN NoAuth
  ELSE IF TokenClaims[token].userId = "" \/ TokenClaims[token].email = "" THEN NoAuth
  ELSE [userId |-> TokenClaims[token].userId, email |-> TokenClaims[token].email]

(***************************************************************************)
(* State                                                                   *)
(***************************************************************************)
VARIABLES
  now,              \* Date.now(), ms
  nextSweep,        \* when the sweeper's setInterval fires next
  rooms,            \* the registry Map documentId -> Room, in insertion order
  roomObjs,         \* every Room object created so far, by identity
  connectionState,  \* Map connection -> {documentId, userId, permission}
  readyState,       \* each connection's ws readyState
  joins,            \* join_document handlers suspended in an await
  persists,         \* persistRoom calls suspended in an await
  frames,           \* frames written to each connection and not yet read by the client
  firstReceived,    \* the type of the first frame each client received since its
                    \* latest join_document ("" when none yet)
  clientDoc,        \* each client's local Y.Doc
  budget,           \* frames the clients may still send
  operations,       \* timestamps kept by recordOperation
  redisAvailable,   \* the flag of that name
  redisStatus,      \* redis.status
  cache,            \* Redis: key -> base64 snapshot
  versions,         \* DocumentVersion rows
  lastDbPersist,    \* Map documentId -> time of the last durable auto-save
  dbUp,             \* whether Prisma queries succeed
  dbDocuments,      \* Document rows: id -> ownerId
  dbShares,         \* DocumentShare rows
  dbLinks           \* DocumentShareLink rows

vars == << now, nextSweep, rooms, roomObjs, connectionState, readyState, joins,
           persists, frames, firstReceived, clientDoc, budget, operations,
           redisAvailable, redisStatus, cache, versions, lastDbPersist, dbUp,
           dbDocuments, dbShares, dbLinks >>

relayVars == << rooms, roomObjs, connectionState, readyState, frames >>

storeVars == << redisAvailable, redisStatus, cache, versions, lastDbPersist, dbUp,
                dbDocuments, dbShares, dbLinks >>

\* the part of the state the synchronous relay code reads and writes
Relay == [ rooms |-> rooms, roomObjs |-> roomObjs, connectionState |-> connectionState,
           readyState |-> readyState, frames |-> frames ]

Commit(S) ==
  /\ rooms' = S.rooms
  /\ roomObjs' = S.roomObjs
  /\ connectionState' = S.connectionState
  /\ readyState' = S.readyState
  /\ frames' = S.frames

(***************************************************************************)
(* The registry: a Map in insertion order                                  *)
(***************************************************************************)
RoomsHas(reg, documentId) == \E i \in 1..Len(reg) : reg[i].documentId = documentId

RoomsGet(reg, documentId) ==
  reg[CHOOSE i \in 1..Len(reg) : reg[i].documentId = documentId].room

RoomsSet(reg, documentId, r) ==
  IF RoomsHas(reg, documentId)
  THEN [i \in 1..Len(reg) |->
          IF reg[i].documentId = documentId THEN [documentId |-> documentId, room |-> r]
          ELSE reg[i]]
  ELSE Append(reg, [documentId |-> documentId, room |-> r])

RoomsDelete(reg, documentId) ==
  LET keep(e) == e.documentId # documentId IN SelectSeq(reg, keep)

(***************************************************************************)
(* A Room's presence Map: entries in insertion order, keyed by connection  *)
(***************************************************************************)
PresenceHas(presence, c) == \E i \in 1..Len(presence) : presence[i].connection = c

PresenceGet(presence, c) ==
  presence[CHOOSE i \in 1..Len(presence) : presence[i].connection = c]

PresenceSet(presence, c, entry) ==
  IF PresenceHas(presence, c)
  THEN [i \in 1..Len(presence) |-> IF presence[i].connection = c THEN entry ELSE presence[i]]
  ELSE Append(presence, entry)

PresenceDelete(presence, c) ==
  LET keep(e) == e.connection # c IN SelectSeq(presence, keep)

(***************************************************************************)
(* Frames and sockets                                                      *)
(***************************************************************************)
NoUsers == << >>

ErrorFrame(message) ==
  [type |-> "error", documentId |-> "", update |-> NoPayload, users |-> NoUsers,
   message |-> message]

DocSyncFrame(documentId, update) ==
  [type |-> "doc_sync", documentId |-> documentId, update |-> update, users |-> NoUsers,
   message |-> ""]

YjsUpdateFrame(documentId, update) ==
  [type |-> "yjs_update", documentId |-> documentId, update |-> update, users |-> NoUsers,
   message |-> ""]

PresenceFrame(documentId, users) ==
  [type |-> "presence_update", documentId |-> documentId, update |-> NoPayload,
   users |-> users, message |-> ""]

\* connection.send: ws drops the data when the socket is not OPEN
Send(S, c, frame) ==
  IF S.readyState[c] = "OPEN"
  THEN [S EXCEPT !.frames[c] = Append(@, frame)]
  ELSE S

\* connection.close(): starts the closing handshake; inbound frames are still
\* received until the peer's close frame arrives
Close(S, c) ==
  IF S.readyState[c] = "OPEN" THEN [S EXCEPT !.readyState[c] = "CLOSING"] ELSE S

\* connection.terminate(): destroys the socket; readyState is CLOSING until the
\* "close" event, and nothing more is received ("TERMINATED" here)
Terminate(S, c) ==
  IF S.readyState[c] = "CLOSED" THEN S ELSE [S EXCEPT !.readyState[c] = "TERMINATED"]

\* a broadcast that does not skip the sender
broadcastEcho(S, r, frame, except) ==
  [S EXCEPT !.frames =
     [c \in Conns |->
        IF c \in S.roomObjs[r].connections /\ S.readyState[c] = "OPEN"
        THEN Append(S.frames[c], frame)
        ELSE S.frames[c]]]

\* a loop that ends at the first connection that is not open
broadcastAbort(S, r, frame, except) ==
  IF \E c \in S.roomObjs[r].connections : S.readyState[c] # "OPEN"
  THEN S
  ELSE [S EXCEPT !.frames =
          [c \in Conns |->
             IF c \in S.roomObjs[r].connections /\ ~(except # "" /\ c = except)
             THEN Append(S.frames[c], frame)
             ELSE S.frames[c]]]

\* a broadcast that puts the frame before what is waiting
broadcastFront(S, r, frame, except) ==
  [S EXCEPT !.frames =
     [c \in Conns |->
        IF /\ c \in S.roomObjs[r].connections
           /\ S.readyState[c] = "OPEN"
           /\ ~(except # "" /\ c = except)
        THEN << frame >> \o S.frames[c]
        ELSE S.frames[c]]]

\* except = "" stands for an absent third argument
broadcast(S, r, frame, except) ==
  [S EXCEPT !.frames =
     [c \in Conns |->
        IF /\ c \in S.roomObjs[r].connections
           /\ S.readyState[c] = "OPEN"
           /\ ~(except # "" /\ c = except)
        THEN Append(S.frames[c], frame)
        ELSE S.frames[c]]]

\* what JSON.stringify sends of a presence entry (the Map key is not part of it)
PresenceValue(e) ==
  [userId |-> e.userId, name |-> e.name, avatarColor |-> e.avatarColor,
   cursorPosition |-> e.cursorPosition, selectionRange |-> e.selectionRange,
   isTyping |-> e.isTyping, lastHeartbeat |-> e.lastHeartbeat]

\* the comparison dropped: the entry met last wins
KeepsExistingNever(existing, presence) == FALSE

\* line 306: an entry replaces the one kept only when its heartbeat is newer
KeepsExisting(existing, presence) == ~(presence.lastHeartbeat > existing.lastHeartbeat)

\* usersByUserId after the loop over room.presence.values(): one entry per userId,
\* in the order the userIds were first met
RECURSIVE usersByUserId(_, _)
usersByUserId(presence, acc) ==
  IF presence = << >> THEN acc
  ELSE LET p == PresenceValue(Head(presence))
           hit == {i \in 1..Len(acc) : acc[i].userId = p.userId}
       IN IF hit = {}
          THEN usersByUserId(Tail(presence), Append(acc, p))
          ELSE LET i == CHOOSE k \in hit : TRUE
               IN usersByUserId(Tail(presence),
                                IF KeepsExisting(acc[i], p) THEN acc
                                ELSE [acc EXCEPT ![i] = p])

broadcastPresence(S, documentId, r) ==
  broadcast(S, r, PresenceFrame(documentId, usersByUserId(S.roomObjs[r].presence, << >>)), "")

(***************************************************************************)
(* Access resolution (getDocumentAccess), as a function of the tables      *)
(***************************************************************************)
Granted(permission) == [error |-> "", permission |-> permission]

Denied(error) == [error |-> error, permission |-> ""]

\* a documentId that is truthy but not a string
NonStringIds == {"#7"}

InvalidId(documentId) == documentId = "" \/ documentId \in NonStringIds

ShareRows(shares, documentId, userId) ==
  {s \in shares : s.documentId = documentId /\ s.userId = userId}

LinkValidOrNow(link, at) == link.expiresAt = 0 \/ link.expiresAt >= at

\* expiresAt = 0 stands for NULL
LinkValid(link, at) == link.expiresAt = 0 \/ link.expiresAt > at

LinkRows(links, documentId, shareToken, at) ==
  {l \in links : l.documentId = documentId /\ l.token = shareToken /\ LinkValid(l, at)}

\* the result when every query succeeds and the tables do not change meanwhile
getDocumentAccess(documents, shares, links, documentId, userId, shareToken, at) ==
  IF InvalidId(documentId) THEN Denied("invalidId")
  ELSE IF documentId \notin DOMAIN documents THEN Denied("notFound")
  ELSE IF documents[documentId] = userId THEN Granted("owner")
  ELSE IF ShareRows(shares, documentId, userId) # {}
       THEN Granted((CHOOSE s \in ShareRows(shares, documentId, userId) : TRUE).permission)
  ELSE IF shareToken # "" /\ LinkRows(links, documentId, shareToken, at) # {}
       THEN Granted((CHOOSE l \in LinkRows(links, documentId, shareToken, at) : TRUE).permission)
  ELSE Denied("noAccess")

(***************************************************************************)
(* join_document                                                           *)
(***************************************************************************)
Absent == "undefined"

NoUser == [name |-> Absent, avatarColor |-> Absent]

NoCursor == -1

NoSelection == [start |-> -1, end |-> -1]

\* no frame is waiting in a socket.  A client's reading of a frame commutes
\* with every step of the server, so the clients read what was written before
\* the next server step
Quiet == \A c \in Conns : frames[c] = << >>

\* a client may send frames until the transport is closed or destroyed
CanSend(c) == Quiet /\ readyState[c] \in {"OPEN", "CLOSING"} /\ budget > 0

DenyNoClose(S, c, message) == Send(S, c, ErrorFrame(message))

\* the error frame and close() of a refused join
Deny(S, c, message) == Close(Send(S, c, ErrorFrame(message)), c)

DenyAccess(S, c, error) ==
  IF error = "notFound" \/ error = "invalidId"
  THEN Deny(S, c, "Document not found")
  ELSE Deny(S, c, "Access denied")

\* persistTimeout is the due time of the timer the field refers to, -1 for
\* null; timers are the due times of the setTimeout timers whose callback
\* closes over this Room
NewRoom(documentId, doc) ==
  [documentId |-> documentId, doc |-> doc, connections |-> {}, presence |-> << >>,
   persistTimeout |-> -1, timers |-> << >>]

\* the record with the owner's permission whatever was resolved
StateOfOwner(j) ==
  [documentId |-> j.documentId, userId |-> j.auth.userId, permission |-> "owner"]

\* lines 424-428: the record connectionState gets
StateOf(j) ==
  [documentId |-> j.documentId, userId |-> j.auth.userId, permission |-> j.permission]

\* lines 417-454: registration, doc_sync to the joiner, presence to the Room
Register(S, j, r) ==
  LET c == j.conn
      entry == [connection |-> c,
                userId |-> j.auth.userId,
                name |-> IF j.user.name = Absent THEN j.auth.email ELSE j.user.name,
                avatarColor |-> IF j.user.avatarColor = Absent THEN "#0ea5e9"
                                ELSE j.user.avatarColor,
                cursorPosition |-> IF j.cursorPosition = NoCursor THEN 0 ELSE j.cursorPosition,
                selectionRange |-> IF j.selectionRange = NoSelection
                                   THEN [start |-> 0, end |-> 0] ELSE j.selectionRange,
                isTyping |-> FALSE,
                lastHeartbeat |-> now]
      S1 == [S EXCEPT !.roomObjs[r].connections = @ \cup {c},
                      !.connectionState = Put(@, c, StateOf(j)),
                      !.roomObjs[r].presence = PresenceSet(@, c, entry)]
      fullUpdate == encodeStateAsUpdate(S1.roomObjs[r].doc)
      S2 == Send(S1, c, DocSyncFrame(j.documentId, encodeUpdate(fullUpdate)))
  IN broadcastPresence(S2, j.documentId, r)

\* the end of getRoom on a registry miss, then the registration
CreateRoomAndRegister(S, j, doc) ==
  LET r == Len(S.roomObjs) + 1
      S1 == [S EXCEPT !.roomObjs = Append(@, NewRoom(j.documentId, doc)),
                      !.rooms = RoomsSet(@, j.documentId, r)]
  IN Register(S1, j, r)

RedisReady == redisAvailable /\ redisStatus = "ready"

\* access was granted: getRoom up to its first await
EnterGetRoom(j, permission) ==
  LET g == [j EXCEPT !.permission = permission]
  IN IF RoomsHas(rooms, j.documentId)
     THEN /\ Commit(Register(Relay, g, RoomsGet(rooms, j.documentId)))
          /\ joins' = joins \ {j}
     ELSE /\ joins' = (joins \ {j}) \cup
                      {[g EXCEPT !.stage = IF RedisReady THEN "redisGet" ELSE "dbLoad"]}
          /\ UNCHANGED relayVars

Refuse(j, error) ==
  /\ Commit(DenyAccess(Relay, j.conn, error))
  /\ joins' = joins \ {j}

\* the "message" event of a join_document frame, up to await verifyToken
JoinDocument(c, m) ==
  /\ CanSend(c)
  /\ budget' = budget - 1
  /\ IF m.token = "" \/ m.documentId = ""
     THEN /\ Commit(Deny(Relay, c, "Unauthorized"))
          /\ UNCHANGED joins
     ELSE /\ joins' = joins \cup
                {[conn |-> c, seq |-> budget, token |-> m.token,
                  documentId |-> m.documentId, shareToken |-> m.shareToken,
                  user |-> m.user, cursorPosition |-> m.cursorPosition,
                  selectionRange |-> m.selectionRange,
                  stage |-> "verify", auth |-> NoAuth, permission |-> "", at |-> 0]}
          /\ UNCHANGED relayVars
  /\ firstReceived' = [firstReceived EXCEPT ![c] = ""]
  /\ UNCHANGED << now, nextSweep, persists, clientDoc, operations, storeVars >>

\* verifyToken resolved; getDocumentAccess up to document.findUnique
VerifyDone(j) ==
  /\ Quiet
  /\ j \in joins /\ j.stage = "verify"
  /\ LET auth == verifyToken(j.token)
     IN IF auth = NoAuth
        THEN /\ Commit(Deny(Relay, j.conn, "Unauthorized"))
             /\ joins' = joins \ {j}
        ELSE IF InvalidId(j.documentId)
        THEN Refuse(j, "invalidId")
        ELSE /\ joins' = (joins \ {j}) \cup {[j EXCEPT !.auth = auth, !.stage = "findDocument"]}
             /\ UNCHANGED relayVars
  /\ UNCHANGED << now, nextSweep, persists, firstReceived, clientDoc, budget, operations, storeVars >>

\* document.findUnique resolved or rejected
FindDocumentDone(j) ==
  /\ Quiet
  /\ j \in joins /\ j.stage = "findDocument"
  /\ IF ~dbUp THEN Refuse(j, "notFound")
     ELSE IF j.documentId \notin DOMAIN dbDocuments THEN Refuse(j, "notFound")
     ELSE IF dbDocuments[j.documentId] = j.auth.userId THEN EnterGetRoom(j, "owner")
     ELSE /\ joins' = (joins \ {j}) \cup {[j EXCEPT !.stage = "findShare"]}
          /\ UNCHANGED relayVars
  /\ UNCHANGED << now, nextSweep, persists, firstReceived, clientDoc, budget, operations, storeVars >>

\* a rejected query outside any try block: the handler's promise rejects and
\* the handler ends, with no frame and no close()
Throw(j) ==
  /\ joins' = joins \ {j}
  /\ UNCHANGED relayVars

\* documentShare.findUnique resolved or rejected
FindShareDone(j) ==
  /\ Quiet
  /\ j \in joins /\ j.stage = "findShare"
  /\ IF ~dbUp THEN Throw(j)
     ELSE IF ShareRows(dbShares, j.documentId, j.auth.userId) # {}
     THEN \E s \in ShareRows(dbShares, j.documentId, j.auth.userId) :
            EnterGetRoom(j, s.permission)
     ELSE IF j.shareToken # ""
     THEN /\ joins' = (joins \ {j}) \cup {[j EXCEPT !.stage = "findLink", !.at = now]}
          /\ UNCHANGED relayVars
     ELSE Refuse(j, "noAccess")
  /\ UNCHANGED << now, nextSweep, persists, firstReceived, clientDoc, budget, operations, storeVars >>

\* documentShareLink.findFirst resolved or rejected
FindLinkDone(j) ==
  /\ Quiet
  /\ j \in joins /\ j.stage = "findLink"
  /\ IF ~dbUp THEN Throw(j)
     ELSE IF LinkRows(dbLinks, j.documentId, j.shareToken, j.at) # {}
     THEN \E l \in LinkRows(dbLinks, j.documentId, j.shareToken, j.at) :
            EnterGetRoom(j, l.permission)
     ELSE Refuse(j, "noAccess")
  /\ UNCHANGED << now, nextSweep, persists, firstReceived, clientDoc, budget, operations, storeVars >>

\* a findFirst without orderBy
LatestVersionsUnordered(documentId) ==
  {i \in 1..Len(versions) : versions[i].documentId = documentId}

\* the rows findFirst({orderBy: {createdAt: "desc"}}) may return
LatestVersions(documentId) ==
  {i \in 1..Len(versions) :
     /\ versions[i].documentId = documentId
     /\ \A k \in 1..Len(versions) :
          versions[k].documentId = documentId => versions[k].createdAt <= versions[i].createdAt}

\* the value of redis.get; NoPayload for a missing key
CacheGet(key) == IF key \in DOMAIN cache THEN cache[key] ELSE NoPayload

\* getRoom: redis.get resolved (hit), resolved empty, or rejected because the
\* connection was lost meanwhile
RedisGetDone(j) ==
  /\ Quiet
  /\ j \in joins /\ j.stage = "redisGet"
  /\ IF redisStatus = "ready" /\ CacheGet(getRedisKey(j.documentId)).present
     THEN /\ Len(roomObjs) < MaxRoomObjs
          /\ Commit(CreateRoomAndRegister(Relay, j,
                      applyUpdate({}, decodeUpdate(cache[getRedisKey(j.documentId)]))))
          /\ joins' = joins \ {j}
     ELSE /\ joins' = (joins \ {j}) \cup {[j EXCEPT !.stage = "dbLoad"]}
          /\ UNCHANGED relayVars
  /\ UNCHANGED << now, nextSweep, persists, firstReceived, clientDoc, budget, operations, storeVars >>

\* getRoom: documentVersion.findFirst resolved or rejected; the Room is
\* created and registered, and the handler goes on to register the connection
DbLoadDone(j) ==
  /\ Quiet
  /\ j \in joins /\ j.stage = "dbLoad"
  /\ Len(roomObjs) < MaxRoomObjs
  /\ \E doc \in IF dbUp /\ LatestVersions(j.documentId) # {}
                THEN {IF versions[i].snapshot.present
                      THEN applyUpdate({}, decodeUpdate(versions[i].snapshot))
                      ELSE {} : i \in LatestVersions(j.documentId)}
                ELSE {{}} :
        Commit(CreateRoomAndRegister(Relay, j, doc))
  /\ joins' = joins \ {j}
  /\ UNCHANGED << now, nextSweep, persists, firstReceived, clientDoc, budget, operations, storeVars >>

(***************************************************************************)
(* Frames of a joined connection                                           *)
(***************************************************************************)
\* the delay schedulePersist passes to setTimeout
PersistDelay == IF RedisReady THEN persistDelayMs ELSE dbPersistIntervalMs

\* schedulePersist without its early return
schedulePersistAlways(S, r) ==
  [S EXCEPT !.roomObjs[r].persistTimeout = now + PersistDelay,
            !.roomObjs[r].timers = Append(@, now + PersistDelay)]

schedulePersist(S, r) ==
  IF S.roomObjs[r].persistTimeout # -1 THEN S
  ELSE [S EXCEPT !.roomObjs[r].persistTimeout = now + PersistDelay,
                 !.roomObjs[r].timers = Append(@, now + PersistDelay)]

RECURSIVE DropExpired(_, _)
DropExpired(ops, at) ==
  IF Len(ops) > 0 /\ at - ops[1] > opsWindowMs THEN DropExpired(Tail(ops), at) ELSE ops

recordOperationNoDrop(ops) == Append(ops, now)

recordOperation(ops) == DropExpired(Append(ops, now), now)

getOpsPerMinute(ops) == Len(DropExpired(ops, now))

\* ReadOnly without the permission check
ReadOnlyNever(state) == FALSE

\* line 474
ReadOnly(state) == state.permission = "viewer"

\* lines 458-467: the frame goes on to its type's branch
Dispatched(c) ==
  /\ c \in DOMAIN connectionState
  /\ RoomsHas(rooms, connectionState[c].documentId)

NotDispatchedSilent(S, c) == S

\* lines 458-467 when the frame stops there
NotDispatched(S, c) ==
  IF c \notin DOMAIN S.connectionState THEN Send(S, c, ErrorFrame("Not joined")) ELSE S

RoomOf(c) == RoomsGet(rooms, connectionState[c].documentId)

\* what a client's own Y.Doc gains from the update it sends
LocalEdit(payload) == IF payload.present THEN payload.b64 \ {Garbage} ELSE {}

\* the handler suspended after Y.applyUpdate: the update is applied and the
\* timer armed, but nothing is recorded or sent in that step
OnYjsUpdateSuspended(c, payload) ==
  /\ budget' = budget - 1
  /\ clientDoc' = [clientDoc EXCEPT ![c] = @ \cup LocalEdit(payload)]
  /\ IF Dispatched(c) /\ payload.present /\ ~ReadOnly(connectionState[c])
        /\ ~ApplyThrows(decodeUpdate(payload))
     THEN LET r == RoomOf(c)
              S1 == [Relay EXCEPT !.roomObjs[r].doc = applyUpdate(@, decodeUpdate(payload))]
          IN Commit(schedulePersist(S1, r))
     ELSE UNCHANGED relayVars
  /\ UNCHANGED << now, nextSweep, joins, persists, firstReceived, operations, storeVars >>

\* the client's doc.on("update") handler sends the update of a local edit;
\* the server's handler of the yjs_update frame
OnYjsUpdate(c, payload) ==
  /\ budget' = budget - 1
  /\ clientDoc' = [clientDoc EXCEPT ![c] = @ \cup LocalEdit(payload)]
  /\ IF ~Dispatched(c)
     THEN Commit(NotDispatched(Relay, c)) /\ UNCHANGED operations
     ELSE IF ~payload.present
     THEN UNCHANGED << relayVars, operations >>
     ELSE IF ReadOnly(connectionState[c])
     THEN Commit(Send(Relay, c, ErrorFrame("Read-only access"))) /\ UNCHANGED operations
     ELSE IF ApplyThrows(decodeUpdate(payload))
     THEN UNCHANGED << relayVars, operations >>
     ELSE LET r == RoomOf(c)
              S1 == [Relay EXCEPT !.roomObjs[r].doc = applyUpdate(@, decodeUpdate(payload))]
              S2 == schedulePersist(S1, r)
          IN /\ operations' = recordOperation(operations)
             /\ Commit(broadcast(S2, r,
                         YjsUpdateFrame(connectionState[c].documentId, payload), c))
  /\ UNCHANGED << now, nextSweep, joins, persists, firstReceived, storeVars >>

YjsUpdate(c, payload) == CanSend(c) /\ OnYjsUpdate(c, payload)

\* the same handler for a frame that arrives while frames sent earlier are
\* still on their way to the peers
YjsUpdateQueued(c, payload) ==
  /\ readyState[c] \in {"OPEN", "CLOSING"}
  /\ budget > 0
  /\ OnYjsUpdate(c, payload)

\* a cursor_update handler that stores the message's three fields as they
\* come, a missing one as its default
CursorUpdateOverwrite(c, m) ==
  /\ CanSend(c)
  /\ budget' = budget - 1
  /\ IF ~Dispatched(c)
     THEN Commit(NotDispatched(Relay, c))
     ELSE LET r == RoomOf(c)
          IN IF ~PresenceHas(roomObjs[r].presence, c)
             THEN UNCHANGED relayVars
             ELSE LET old == PresenceGet(roomObjs[r].presence, c)
                      new == [old EXCEPT
                                !.cursorPosition =
                                   IF m.cursorPosition = NoCursor THEN 0 ELSE m.cursorPosition,
                                !.selectionRange =
                                   IF m.selectionRange = NoSelection THEN [start |-> 0, end |-> 0]
                                   ELSE m.selectionRange,
                                !.isTyping = m.isTyping = "true",
                                !.lastHeartbeat = now]
                      S1 == [Relay EXCEPT !.roomObjs[r].presence = PresenceSet(@, c, new)]
                  IN Commit(broadcastPresence(S1, connectionState[c].documentId, r))
  /\ UNCHANGED << now, nextSweep, joins, persists, firstReceived, clientDoc, operations, storeVars >>

\* a ?? b for the three optional fields of cursor_update
CursorUpdate(c, m) ==
  /\ CanSend(c)
  /\ budget' = budget - 1
  /\ IF ~Dispatched(c)
     THEN Commit(NotDispatched(Relay, c))
     ELSE LET r == RoomOf(c)
          IN IF ~PresenceHas(roomObjs[r].presence, c)
             THEN UNCHANGED relayVars
             ELSE LET old == PresenceGet(roomObjs[r].presence, c)
                      new == [old EXCEPT
                                !.cursorPosition =
                                   IF m.cursorPosition = NoCursor THEN @ ELSE m.cursorPosition,
                                !.selectionRange =
                                   IF m.selectionRange = NoSelection THEN @ ELSE m.selectionRange,
                                !.isTyping =
                                   IF m.isTyping = Absent THEN @ ELSE m.isTyping = "true",
                                !.lastHeartbeat = now]
                      S1 == [Relay EXCEPT !.roomObjs[r].presence = PresenceSet(@, c, new)]
                  IN Commit(broadcastPresence(S1, connectionState[c].documentId, r))
  /\ UNCHANGED << now, nextSweep, joins, persists, firstReceived, clientDoc, operations, storeVars >>

\* lines 517-520 and 548-551: the same four statements
RemoveAndBroadcast(S, c, r) ==
  LET S1 == [S EXCEPT !.roomObjs[r].connections = @ \ {c},
                      !.roomObjs[r].presence = PresenceDelete(@, c),
                      !.connectionState = Del(@, c)]
  IN broadcastPresence(S1, S.connectionState[c].documentId, r)

LeaveDocument(c) ==
  /\ CanSend(c)
  /\ budget' = budget - 1
  /\ IF ~Dispatched(c)
     THEN Commit(NotDispatched(Relay, c))
     ELSE Commit(RemoveAndBroadcast(Relay, c, RoomOf(c)))
  /\ UNCHANGED << now, nextSweep, joins, persists, firstReceived, clientDoc, operations, storeVars >>

\* presence.lastHeartbeat = Date.now(), when the connection has an entry
Touch(S, c, r) ==
  IF PresenceHas(S.roomObjs[r].presence, c)
  THEN [S EXCEPT !.roomObjs[r].presence =
          PresenceSet(@, c, [PresenceGet(@, c) EXCEPT !.lastHeartbeat = now])]
  ELSE S

Heartbeat(c) ==
  /\ CanSend(c)
  /\ budget' = budget - 1
  /\ IF ~Dispatched(c)
     THEN Commit(NotDispatched(Relay, c))
     ELSE Commit(Touch(Relay, c, RoomOf(c)))
  /\ UNCHANGED << now, nextSweep, joins, persists, firstReceived, clientDoc, operations, storeVars >>

\* a frame whose type is none of the five
UnknownFrame(c) ==
  /\ CanSend(c)
  /\ budget' = budget - 1
  /\ Commit(IF ~Dispatched(c) THEN NotDispatched(Relay, c) ELSE Relay)
  /\ UNCHANGED << now, nextSweep, joins, persists, firstReceived, clientDoc, operations, storeVars >>

(***************************************************************************)
(* Transport events                                                        *)
(***************************************************************************)
\* the "close" event: the peer closed or vanished, the closing handshake
\* ended, or the destroyed socket was released
TransportClose(c) ==
  /\ Quiet
  /\ readyState[c] # "CLOSED"
  /\ LET S0 == [Relay EXCEPT !.readyState[c] = "CLOSED"]
     IN IF c \notin DOMAIN connectionState
        THEN Commit(S0)
        ELSE IF ~RoomsHas(rooms, connectionState[c].documentId)
        THEN Commit([S0 EXCEPT !.connectionState = Del(@, c)])
        ELSE Commit(RemoveAndBroadcast(S0, c, RoomOf(c)))
  /\ UNCHANGED << now, nextSweep, joins, persists, firstReceived, clientDoc, budget, operations,
                  storeVars >>

\* a write to the socket of c fails after send() has returned (send does not
\* throw on an open socket): ws destroys the socket, what was written is lost,
\* and the "close" event follows
WriteFails(c) ==
  /\ readyState[c] = "OPEN"
  /\ frames[c] # << >>
  /\ frames' = [frames EXCEPT ![c] = << >>]
  /\ readyState' = [readyState EXCEPT ![c] = "TERMINATED"]
  /\ UNCHANGED << now, nextSweep, rooms, roomObjs, connectionState, joins, persists,
                  firstReceived, clientDoc, budget, operations, storeVars >>

\* the "pong" event; a peer may send a pong at any time
Pong(c) ==
  /\ Quiet
  /\ readyState[c] = "OPEN"
  /\ Dispatched(c)
  /\ PresenceHas(roomObjs[RoomOf(c)].presence, c)
  /\ Commit(Touch(Relay, c, RoomOf(c)))
  /\ UNCHANGED << now, nextSweep, joins, persists, firstReceived, clientDoc, budget, operations,
                  storeVars >>

\* the client's "message" handler on the next frame of its socket
Deliver(c) ==
  /\ frames[c] # << >>
  /\ \A o \in Conns : frames[o] # << >> => ConnOrder[c] <= ConnOrder[o]
  /\ frames' = [frames EXCEPT ![c] = Tail(@)]
  /\ firstReceived' = [firstReceived EXCEPT ![c] = IF @ = "" THEN Head(frames[c]).type ELSE @]
  /\ LET f == Head(frames[c])
     IN clientDoc' = [clientDoc EXCEPT ![c] =
                        IF f.type \in {"doc_sync", "yjs_update"}
                        THEN applyUpdate(@, decodeUpdate(f.update)) ELSE @]
  /\ UNCHANGED << now, nextSweep, rooms, roomObjs, connectionState, readyState, joins,
                  persists, budget, operations, storeVars >>

(***************************************************************************)
(* The sweeper                                                             *)
(***************************************************************************)
Stale(entry) == now - entry.lastHeartbeat > heartbeatTimeoutMs

RECURSIVE TerminateAll(_, _)
TerminateAll(S, stale) ==
  IF stale = << >> THEN S
  ELSE TerminateAll(Terminate(S, Head(stale).connection), Tail(stale))

cleanupRoom(S, documentId, r) ==
  LET presence == S.roomObjs[r].presence
      stale == SelectSeq(presence, Stale)
      gone == {stale[i].connection : i \in 1..Len(stale)}
      fresh(e) == ~Stale(e)
      S1 == [S EXCEPT !.connectionState = [c \in (DOMAIN @) \ gone |-> @[c]],
                      !.roomObjs[r].presence = SelectSeq(@, fresh),
                      !.roomObjs[r].connections = @ \ gone]
      S2 == TerminateAll(S1, stale)
      S3 == IF stale # << >> THEN broadcastPresence(S2, documentId, r) ELSE S2
  IN IF S3.roomObjs[r].connections = {}
     THEN [S3 EXCEPT !.rooms = RoomsDelete(@, documentId)]
     ELSE S3

RECURSIVE SweepRooms(_, _)
SweepRooms(S, entries) ==
  IF entries = << >> THEN S
  ELSE SweepRooms(cleanupRoom(S, Head(entries).documentId, Head(entries).room), Tail(entries))

\* a setTimeout or setInterval callback that is due runs before the clock
\* moves on
TimerDue ==
  \/ nextSweep <= now
  \/ \E r \in 1..Len(roomObjs) :
       \E i \in 1..Len(roomObjs[r].timers) : roomObjs[r].timers[i] <= now

\* the setInterval callback; its pings change nothing on the server
Sweep ==
  /\ Quiet
  /\ nextSweep <= now
  /\ nextSweep' = now + heartbeatIntervalMs
  /\ Commit(SweepRooms(Relay, rooms))
  /\ UNCHANGED << now, joins, persists, firstReceived, clientDoc, budget, operations, storeVars >>

StartTime == 1000000

Tick ==
  /\ Quiet
  /\ ~TimerDue
  /\ now + TimeStep <= StartTime + MaxTime
  /\ now' = now + TimeStep
  /\ UNCHANGED << nextSweep, relayVars, joins, persists, firstReceived, clientDoc, budget,
                  operations, storeVars >>

(***************************************************************************)
(* Persistence: the persist timer and persistRoom                          *)
(***************************************************************************)
\* lastDbPersist.get(documentId) ?? 0
LastPersist(documentId) ==
  IF documentId \in DOMAIN lastDbPersist THEN lastDbPersist[documentId] ELSE 0

\* a floor that refuses every durable write
RateLimitedAlways(at, lastPersist) == TRUE

\* line 232
RateLimited(at, lastPersist) == at - lastPersist < dbPersistIntervalMs

\* a persist that ends where the durable branch would begin
EnterDbPersistNever(p) == persists' = persists \ {p}

\* lines 227-241: the durable branch up to its first query; p leaves persists
\* when the rate limit stops it
EnterDbPersist(p) ==
  IF RateLimited(now, LastPersist(p.documentId))
  THEN persists' = persists \ {p}
  ELSE persists' = (persists \ {p}) \cup {[p EXCEPT !.stage = "findLatest", !.at = now]}

\* the timer heap once timer i has fired
TimerGone(timers, i) ==
  SubSeq(timers, 1, i - 1) \o SubSeq(timers, i + 1, Len(timers))

\* a callback that leaves room.persistTimeout set
TimerFiredFlagKept(room, i) == [room EXCEPT !.timers = TimerGone(@, i)]

\* line 277: the callback's first statement, room.persistTimeout = null
TimerFired(room, i) ==
  [room EXCEPT !.persistTimeout = -1, !.timers = TimerGone(@, i)]

\* the timer callback of schedulePersist, up to the first await of persistRoom
PersistFire(r) ==
  /\ Quiet
  /\ r \in 1..Len(roomObjs)
  /\ \E i \in 1..Len(roomObjs[r].timers) :
       /\ roomObjs[r].timers[i] <= now
       /\ roomObjs' = [roomObjs EXCEPT ![r] = TimerFired(@, i)]
  /\ LET p == [room |-> r, firedAt |-> now, documentId |-> roomObjs[r].documentId,
               snapshot |-> encodeUpdate(encodeStateAsUpdate(roomObjs[r].doc)),
               stage |-> "redisSet", at |-> 0, ownerId |-> ""]
     IN IF RedisReady
        THEN persists' = persists \cup {p}
        ELSE EnterDbPersist(p)
  /\ UNCHANGED << now, nextSweep, rooms, connectionState, readyState, frames, joins,
                  firstReceived, clientDoc, budget, operations, storeVars >>

\* the one connection to Redis carries the commands, and their replies, in
\* the order in which they were issued
OldestSet(p) ==
  \A q \in persists : q.stage = "redisSet" => p.firedAt <= q.firedAt

\* redis.set resolved
RedisSetDone(p) ==
  /\ Quiet
  /\ p \in persists /\ p.stage = "redisSet"
  /\ OldestSet(p)
  /\ redisStatus = "ready"
  /\ cache' = Put(cache, getRedisKey(p.documentId), p.snapshot)
  /\ persists' = persists \ {p}
  /\ UNCHANGED << now, nextSweep, relayVars, joins, firstReceived, clientDoc, budget, operations,
                  redisAvailable, redisStatus, versions, lastDbPersist, dbUp,
                  dbDocuments, dbShares, dbLinks >>

\* redis.set rejected: with "Connection is closed" or with another message
RedisSetFailed(p, connectionClosed) ==
  /\ Quiet
  /\ p \in persists /\ p.stage = "redisSet"
  /\ OldestSet(p)
  /\ redisStatus # "ready"
  /\ redisAvailable' = IF connectionClosed THEN FALSE ELSE redisAvailable
  /\ EnterDbPersist(p)
  /\ UNCHANGED << now, nextSweep, relayVars, joins, firstReceived, clientDoc, budget, operations,
                  redisStatus, cache, versions, lastDbPersist, dbUp,
                  dbDocuments, dbShares, dbLinks >>

\* line 244
Changed(latest, snapshot) == latest = {} \/ \E i \in latest : versions[i].snapshot # snapshot

\* documentVersion.findFirst resolved or rejected
PersistFindLatestDone(p) ==
  /\ Quiet
  /\ p \in persists /\ p.stage = "findLatest"
  /\ IF ~dbUp THEN persists' = persists \ {p}
     ELSE \E latest \in IF LatestVersions(p.documentId) = {} THEN {{}}
                        ELSE {{i} : i \in LatestVersions(p.documentId)} :
            IF Changed(latest, p.snapshot)
            THEN persists' = (persists \ {p}) \cup {[p EXCEPT !.stage = "findOwner"]}
            ELSE persists' = persists \ {p}
  /\ UNCHANGED << now, nextSweep, relayVars, joins, firstReceived, clientDoc, budget, operations,
                  storeVars >>

\* document.findUnique resolved or rejected
PersistFindOwnerDone(p) ==
  /\ Quiet
  /\ p \in persists /\ p.stage = "findOwner"
  /\ IF dbUp /\ p.documentId \in DOMAIN dbDocuments
     THEN persists' = (persists \ {p}) \cup
                      {[p EXCEPT !.stage = "create", !.ownerId = dbDocuments[p.documentId]]}
     ELSE persists' = persists \ {p}
  /\ UNCHANGED << now, nextSweep, relayVars, joins, firstReceived, clientDoc, budget, operations,
                  storeVars >>

\* documentVersion.create resolved or rejected; createdAt is the store's clock
PersistCreateDone(p) ==
  /\ Quiet
  /\ p \in persists /\ p.stage = "create"
  /\ persists' = persists \ {p}
  /\ IF dbUp
     THEN /\ versions' = Append(versions,
                           [documentId |-> p.documentId, authorId |-> p.ownerId,
                            summary |-> "Auto-save", snapshot |-> p.snapshot,
                            createdAt |-> now])
          /\ lastDbPersist' = Put(lastDbPersist, p.documentId, p.at)
     ELSE UNCHANGED << versions, lastDbPersist >>
  /\ UNCHANGED << now, nextSweep, relayVars, joins, firstReceived, clientDoc, budget, operations,
                  redisAvailable, redisStatus, cache, dbUp, dbDocuments, dbShares, dbLinks >>

(***************************************************************************)
(* The stores' own events                                                  *)
(***************************************************************************)
\* ioredis: the "connect" event, then status ready
RedisConnect ==
  /\ Quiet
  /\ redisStatus = "connecting"
  /\ redisStatus' = "connect"
  /\ redisAvailable' = TRUE
  /\ UNCHANGED << now, nextSweep, relayVars, joins, persists, firstReceived, clientDoc, budget,
                  operations, cache, versions, lastDbPersist, dbUp, dbDocuments, dbShares,
                  dbLinks >>

RedisBecomesReady ==
  /\ Quiet
  /\ redisStatus = "connect"
  /\ redisStatus' = "ready"
  /\ UNCHANGED << now, nextSweep, relayVars, joins, persists, firstReceived, clientDoc, budget,
                  operations, redisAvailable, cache, versions, lastDbPersist, dbUp,
                  dbDocuments, dbShares, dbLinks >>

\* the "error" event; retryStrategy returns null, so the client ends for good
RedisError ==
  /\ Quiet
  /\ redisStatus # "end"
  /\ redisStatus' = "end"
  /\ redisAvailable' = FALSE
  /\ UNCHANGED << now, nextSweep, relayVars, joins, persists, firstReceived, clientDoc, budget,
                  operations, cache, versions, lastDbPersist, dbUp, dbDocuments, dbShares,
                  dbLinks >>

\* the server closes an established connection: ioredis goes through "close"
\* to "end" without an "error" event, and no handler of the relay runs
RedisClose ==
  /\ Quiet
  /\ redisStatus \in {"connect", "ready"}
  /\ redisStatus' = "end"
  /\ UNCHANGED << now, nextSweep, relayVars, joins, persists, firstReceived, clientDoc, budget,
                  operations, redisAvailable, cache, versions, lastDbPersist, dbUp,
                  dbDocuments, dbShares, dbLinks >>

\* the durable store stops answering: every query rejects
DbFails ==
  /\ Quiet
  /\ dbUp
  /\ dbUp' = FALSE
  /\ UNCHANGED << now, nextSweep, relayVars, joins, persists, firstReceived, clientDoc, budget,
                  operations, redisAvailable, redisStatus, cache, versions, lastDbPersist,
                  dbDocuments, dbShares, dbLinks >>

\* prisma connects again with the next query
DbRecovers ==
  /\ Quiet
  /\ ~dbUp
  /\ dbUp' = TRUE
  /\ UNCHANGED << now, nextSweep, relayVars, joins, persists, firstReceived, clientDoc, budget,
                  operations, redisAvailable, redisStatus, cache, versions, lastDbPersist,
                  dbDocuments, dbShares, dbLinks >>

(***************************************************************************)
(* Initial state and inputs                                                *)
(***************************************************************************)
InitTables ==
  /\ dbDocuments = [d1 |-> "u1", d2 |-> "u2"]
  /\ dbShares = {[documentId |-> "d1", userId |-> "u2", permission |-> "viewer"]}
  /\ dbLinks = {[documentId |-> "d2", token |-> "lnk", permission |-> "editor",
                 expiresAt |-> 0]}

InitRelay ==
  /\ now = StartTime
  /\ nextSweep = StartTime + heartbeatIntervalMs
  /\ rooms = << >>
  /\ roomObjs = << >>
  /\ connectionState = << >>
  /\ readyState = [c \in Conns |-> "OPEN"]
  /\ joins = {}
  /\ persists = {}
  /\ frames = [c \in Conns |-> << >>]
  /\ firstReceived = [c \in Conns |-> ""]
  /\ clientDoc = [c \in Conns |-> {}]
  /\ operations = << >>
  /\ cache = << >>
  /\ versions = << >>
  /\ lastDbPersist = << >>
  /\ dbUp = TRUE

JoinMessage(token, documentId, shareToken) ==
  [token |-> token, documentId |-> documentId, shareToken |-> shareToken,
   user |-> NoUser, cursorPosition |-> NoCursor, selectionRange |-> NoSelection]

\* u1 owns d1, where u2 is a viewer; u2 owns d2, where u1 has no grant
JoinMessages ==
  {JoinMessage(t, d, "") : t \in {"tok_u1", "tok_u2"}, d \in {"d1", "d2"}}

UpdatePayloads == {encodeUpdate({u}) : u \in Updates}

CursorMessage(cursorPosition, selectionRange, isTyping) ==
  [cursorPosition |-> cursorPosition, selectionRange |-> selectionRange,
   isTyping |-> isTyping]

CursorMessages == {CursorMessage(1, NoSelection, Absent)}

Init ==
  /\ InitRelay
  /\ InitTables
  /\ budget = MaxFrames
  /\ redisAvailable = FALSE
  /\ redisStatus = "connecting"

\* the "message" event of a frame of connection c
FrameFrom(c) ==
  \/ \E m \in JoinMessages : JoinDocument(c, m)
  \/ \E u \in UpdatePayloads : YjsUpdate(c, u)
  \/ \E m \in CursorMessages : CursorUpdate(c, m)
  \/ LeaveDocument(c)
  \/ Heartbeat(c)

\* the relay without the clock: frames, joins in flight, transport events
Next ==
  \/ \E c \in Clients, m \in JoinMessages : JoinDocument(c, m)
  \/ \E c \in Clients, u \in UpdatePayloads : YjsUpdate(c, u)
  \/ \E c \in Clients, m \in CursorMessages : CursorUpdate(c, m)
  \/ \E c \in Clients : LeaveDocument(c)
  \/ \E c \in Clients : Heartbeat(c)
  \/ \E j \in joins : VerifyDone(j)
  \/ \E j \in joins : FindDocumentDone(j)
  \/ \E j \in joins : FindShareDone(j)
  \/ \E j \in joins : DbLoadDone(j)
  \/ \E c \in Clients : TransportClose(c)
  \/ \E c \in Clients : Deliver(c)

Spec == Init /\ [][Next]_vars

(***************************************************************************)
(* Properties                                                              *)
(***************************************************************************)
\* the open connections whose connectionState records document d
JoinedTo(d) ==
  {c \in DOMAIN connectionState :
     connectionState[c].documentId = d /\ readyState[c] = "OPEN"}

\* nothing is in flight: no handler is suspended, no frame is unread
Quiescent == Quiet /\ joins = {}

\* C1: Convergence.  Once nothing is in flight, the local CRDT of every
\* connection joined to a document with write permission holds exactly the
\* updates of the document's Room.
C1_Convergence ==
  Quiescent =>
    \A d \in Docs :
      RoomsHas(rooms, d) =>
        \A c \in JoinedTo(d) :
          connectionState[c].permission # "viewer" =>
            clientDoc[c] = roomObjs[RoomsGet(rooms, d)].doc

\* C3: Join sync.  The first frame a connection receives after its
\* join_document, when that join registered it, is the doc_sync.
C3_DocSyncFirst ==
  \A c \in Conns :
    ( /\ Quiet
      /\ c \in DOMAIN connectionState
      /\ readyState[c] = "OPEN"
      /\ \A j \in joins : j.conn # c )
    => firstReceived[c] = "doc_sync"

\* C4: Serial frames.  No frame of a connection is handled while a
\* join_document handler of the same connection is still suspended.
C4_SerialFrames ==
  [][\A c \in Conns : FrameFrom(c) => \A j \in joins : j.conn # c]_vars

\* connection c is in the connections set of Room object r
Member(c, r) == c \in roomObjs[r].connections

\* C5: Membership.  For every Room of the registry, a connection is in its
\* connections set iff it has a presence entry there iff connectionState
\* records the Room's document for it.
C5_Membership ==
  \A i \in 1..Len(rooms) : \A c \in Conns :
    LET r == rooms[i].room
        d == rooms[i].documentId
        recorded == c \in DOMAIN connectionState /\ connectionState[c].documentId = d
    IN /\ Member(c, r) <=> PresenceHas(roomObjs[r].presence, c)
       /\ Member(c, r) <=> recorded

\* C6: A connection is a member of at most one Room of the registry.
C6_OneRoom ==
  \A c \in Conns :
    Cardinality({i \in 1..Len(rooms) :
                   \/ Member(c, rooms[i].room)
                   \/ PresenceHas(roomObjs[rooms[i].room].presence, c)}) <= 1

\* connection c is joined as a viewer
ViewerConn(c) == c \in DOMAIN connectionState /\ connectionState[c].permission = "viewer"

\* a step that changes no Room's CRDT, sends no yjs_update, sets no persist
\* timer, records no operation and writes nothing to the cache or the store
NoContentChange ==
  /\ Len(roomObjs') = Len(roomObjs)
  /\ \A r \in 1..Len(roomObjs) :
       /\ roomObjs'[r].doc = roomObjs[r].doc
       /\ roomObjs'[r].persistTimeout = roomObjs[r].persistTimeout
  /\ \A o \in Conns : \A i \in 1..Len(frames'[o]) :
       frames'[o][i].type = "yjs_update" => i <= Len(frames[o]) /\ frames[o][i] = frames'[o][i]
  /\ persists' = persists
  /\ operations' = operations
  /\ cache' = cache
  /\ versions' = versions

\* C2: Viewer immutability.  The handling of a frame of a connection joined
\* as viewer changes no Room's CRDT, sends no yjs_update to anyone, sets no
\* persist timer and writes no snapshot.
C2_ViewerImmutable ==
  [][\A c \in Conns : (ViewerConn(c) /\ FrameFrom(c)) => NoContentChange]_vars

\* a viewer's yjs_update was refused while a peer is in its Room
C2_Witness ==
  \E c \in Conns :
    /\ ViewerConn(c)
    /\ \E i \in 1..Len(frames[c]) : frames[c][i].message = "Read-only access"
    /\ Dispatched(c)
    /\ \E o \in Conns \ {c} : Member(o, RoomOf(c))

\* connection c enters a connections set, or its connectionState is set
Enters(c) ==
  \/ \E r \in 1..Len(roomObjs') :
       /\ c \in roomObjs'[r].connections
       /\ ~(r <= Len(roomObjs) /\ c \in roomObjs[r].connections)
  \/ /\ c \in DOMAIN connectionState'
     /\ ~(c \in DOMAIN connectionState /\ connectionState[c] = connectionState'[c])

\* join handler j ends in this step, its token verifies, the resolver grants
\* its (documentId, userId, shareToken) a permission, and that permission is
\* what connectionState records; c is in the connections of a Room of that
\* document only
ByGrantedJoin(c) ==
  \E j \in joins \ joins' :
    LET auth == verifyToken(j.token)
        access == getDocumentAccess(dbDocuments, dbShares, dbLinks, j.documentId,
                                    auth.userId, j.shareToken, j.at)
    IN /\ j.conn = c
       /\ auth # NoAuth
       /\ access.error = ""
       /\ connectionState'[c] = [documentId |-> j.documentId, userId |-> auth.userId,
                                 permission |-> access.permission]
       /\ \A r \in 1..Len(roomObjs') :
            (c \in roomObjs'[r].connections /\
             ~(r <= Len(roomObjs) /\ c \in roomObjs[r].connections))
            => roomObjs'[r].documentId = j.documentId

\* C7: A connection becomes a member of a Room, and gets its connectionState,
\* only through a join_document whose token verified and whose access
\* resolution granted a permission; the stored permission is the resolved one.
C7_JoinOnly == [][\A c \in Conns : Enters(c) => ByGrantedJoin(c)]_vars

\* a connection is registered with the permission of its explicit share
C7_Witness ==
  \E c \in DOMAIN connectionState :
    /\ connectionState[c].permission = "viewer"
    /\ Dispatched(c)
    /\ Member(c, RoomOf(c))

(***************************************************************************)
(* The relay with the clock and the sweeper: presence and heartbeats       *)
(***************************************************************************)
\* both users on document d1: its owner u1, and u2, a viewer
PresenceJoinMessages == {JoinMessage(t, "d1", "") : t \in {"tok_u1", "tok_u2"}}

NextPresence ==
  \/ \E c \in Clients, m \in PresenceJoinMessages : JoinDocument(c, m)
  \/ \E c \in Clients, m \in CursorMessages : CursorUpdate(c, m)
  \/ \E c \in Clients : LeaveDocument(c)
  \/ \E c \in Clients : Heartbeat(c)
  \/ \E c \in Clients : Pong(c)
  \/ \E j \in joins : VerifyDone(j)
  \/ \E j \in joins : FindDocumentDone(j)
  \/ \E j \in joins : FindShareDone(j)
  \/ \E j \in joins : DbLoadDone(j)
  \/ \E c \in Clients : Deliver(c)
  \/ Sweep
  \/ Tick

SpecPresence == Init /\ [][NextPresence]_vars

\* the userIds of a users list are pairwise distinct
DistinctUsers(users) ==
  \A i, k \in 1..Len(users) : users[i].userId = users[k].userId => i = k

\* users lists exactly one entry for each user of the presence Map, and it is
\* an entry of that user with the greatest lastHeartbeat
LatestPerUser(users, presence) ==
  /\ \A i \in 1..Len(users) :
       \E k \in 1..Len(presence) :
         /\ users[i] = PresenceValue(presence[k])
         /\ \A n \in 1..Len(presence) :
              presence[n].userId = users[i].userId
              => presence[n].lastHeartbeat <= users[i].lastHeartbeat
  /\ \A k \in 1..Len(presence) :
       \E i \in 1..Len(users) : users[i].userId = presence[k].userId

\* C8: Presence dedup.  Every presence_update written to a connection lists
\* pairwise distinct userIds, and for each user of the sending Room's
\* presence Map an entry with the greatest lastHeartbeat of that user.
C8_PresenceDedup ==
  \A c \in Conns : \A i \in 1..Len(frames[c]) :
    frames[c][i].type = "presence_update" =>
      /\ DistinctUsers(frames[c][i].users)
      /\ \E r \in 1..Len(roomObjs) :
           /\ roomObjs[r].documentId = frames[c][i].documentId
           /\ Member(c, r)
           /\ LatestPerUser(frames[c][i].users, roomObjs[r].presence)

\* a presence_update lists one entry for a user who has two connections with
\* different heartbeats in the Room
C8_Witness ==
  \E c \in Conns : \E i \in 1..Len(frames[c]) : \E r \in 1..Len(roomObjs) :
    /\ frames[c][i].type = "presence_update"
    /\ Member(c, r)
    /\ \E k, n \in 1..Len(roomObjs[r].presence) :
         /\ roomObjs[r].presence[k].userId = roomObjs[r].presence[n].userId
         /\ roomObjs[r].presence[k].lastHeartbeat < roomObjs[r].presence[n].lastHeartbeat
    /\ Len(frames[c][i].users) = 1

\* the Room objects that hold a presence entry of connection c
PresenceRooms(c) == {r \in 1..Len(roomObjs) : PresenceHas(roomObjs[r].presence, c)}

\* a joined connection whose heartbeat is older than the timeout
StaleConn(c) ==
  /\ c \in DOMAIN connectionState
  /\ \E r \in PresenceRooms(c) : Stale(PresenceGet(roomObjs[r].presence, c))

\* C9: Heartbeat eviction.  A sweeper tick removes every joined connection
\* whose heartbeat is older than 10 s from its Room's connections and presence
\* and from connectionState, terminates it, and writes the remaining open
\* members a presence_update.
C9_Eviction ==
  [][Sweep =>
       \A c \in Conns :
         StaleConn(c) =>
           /\ c \notin DOMAIN connectionState'
           /\ readyState'[c] # "OPEN"
           /\ \A r \in PresenceRooms(c) :
                /\ ~PresenceHas(roomObjs'[r].presence, c)
                /\ c \notin roomObjs'[r].connections
                /\ \A o \in roomObjs'[r].connections :
                     readyState'[o] = "OPEN" =>
                       \E i \in 1..Len(frames'[o]) :
                         /\ frames'[o][i].type = "presence_update"
                         /\ frames'[o][i].documentId = roomObjs[r].documentId]_vars

(***************************************************************************)
(* The relay with the persist timer, persistRoom and the cache's events    *)
(***************************************************************************)
\* the owner u1 of d1 on either connection
PersistJoinMessages == {JoinMessage("tok_u1", "d1", "")}

NextPersist ==
  \/ \E c \in Clients, m \in PersistJoinMessages : JoinDocument(c, m)
  \/ \E c \in Clients, u \in UpdatePayloads : YjsUpdate(c, u)
  \/ \E c \in Clients : LeaveDocument(c)
  \/ \E j \in joins : VerifyDone(j)
  \/ \E j \in joins : FindDocumentDone(j)
  \/ \E j \in joins : RedisGetDone(j)
  \/ \E j \in joins : DbLoadDone(j)
  \/ \E c \in Clients : Deliver(c)
  \/ \E r \in 1..Len(roomObjs) : PersistFire(r)
  \/ \E p \in persists : RedisSetDone(p)
  \/ \E p \in persists, connectionClosed \in BOOLEAN : RedisSetFailed(p, connectionClosed)
  \/ \E p \in persists : PersistFindLatestDone(p)
  \/ \E p \in persists : PersistFindOwnerDone(p)
  \/ \E p \in persists : PersistCreateDone(p)
  \/ RedisConnect
  \/ RedisBecomesReady
  \/ RedisError
  \/ Sweep
  \/ Tick

SpecPersist == Init /\ [][NextPersist]_vars

\* the durable auto-save rows of a document, by index in versions
AutoSaves(documentId) ==
  {i \in 1..Len(versions) :
     versions[i].documentId = documentId /\ versions[i].summary = "Auto-save"}

\* C10: Durable write floor.  Any two Auto-save rows of one document were
\* created at least dbPersistIntervalMs (5 s) apart.
C10_WriteFloor ==
  \A d \in Docs : \A i, k \in AutoSaves(d) :
    i < k => versions[k].createdAt - versions[i].createdAt >= dbPersistIntervalMs

(***************************************************************************)
(* Room registry: garbage collection                                       *)
(***************************************************************************)
\* Room object r is a value of the registry reg
RegisteredIn(reg, r) == \E i \in 1..Len(reg) : reg[i].room = r

\* C11: Room GC.  Every Room that has a member is in the registry, and a
\* sweeper tick leaves no Room without a member in the registry (a Room may
\* be empty and registered only from its last member's departure to the next
\* tick).
C11_RoomGC ==
  [][ /\ \A r \in 1..Len(roomObjs') :
           roomObjs'[r].connections # {} => RegisteredIn(rooms', r)
      /\ Sweep => \A i \in 1..Len(rooms') :
                    roomObjs'[rooms'[i].room].connections # {} ]_vars

\* a persist of Room object r is pending: its timer is set, or its
\* persistRoom call is suspended in an await
PersistPending(r) ==
  \/ roomObjs[r].persistTimeout # -1
  \/ \E p \in persists : p.room = r

\* C12: No Room leaves the registry while a persist of it is pending.
C12_PersistBeforeTeardown ==
  [][\A i \in 1..Len(rooms) :
       PersistPending(rooms[i].room) => RegisteredIn(rooms', rooms[i].room)]_vars

(***************************************************************************)
(* The relay with varying share tables: access resolution and denials      *)
(***************************************************************************)
\* the shareToken values of the join messages; "" stands for an absent one
ShareTokens == {"", "lnk", "exp", "fut", "bad"}

\* share rows: (documentId, userId) is unique in the table
ShareTables ==
  SUBSET {[documentId |-> "d1", userId |-> "u2", permission |-> "viewer"],
          [documentId |-> "d1", userId |-> "u1", permission |-> "viewer"]}

\* share links: one without expiry on d2, and on d1 one that expires at the
\* very time of the joins and one that expires later
AllLinks ==
  {[documentId |-> "d2", token |-> "lnk", permission |-> "editor", expiresAt |-> 0],
   [documentId |-> "d1", token |-> "exp", permission |-> "editor", expiresAt |-> StartTime],
   [documentId |-> "d1", token |-> "fut", permission |-> "editor",
    expiresAt |-> StartTime + 1]}

LinkTables == {AllLinks}

InitAccess ==
  /\ InitRelay
  /\ dbDocuments = [d1 |-> "u1", d2 |-> "u2"]
  /\ dbShares \in ShareTables
  /\ dbLinks \in LinkTables
  /\ budget = MaxFrames
  /\ redisAvailable = FALSE
  /\ redisStatus = "connecting"

\* joins of both users to d1 with every share token, joins to a missing
\* document, with an empty and with a non-string id, and joins with no
\* token, a token jwtVerify rejects and a token without an email claim
AccessJoinMessages ==
  {JoinMessage(t, "d1", k) : t \in {"tok_u1", "tok_u2"}, k \in ShareTokens}
  \cup {JoinMessage("tok_u1", d, "") : d \in {"d9", ""} \cup NonStringIds}
  \cup {JoinMessage(t, "d1", "") : t \in {"", "tok_bad", "tok_noemail"}}

\* the connection that sends them
AccessConns == {"c1"}

NextAccess ==
  \/ \E c \in AccessConns, m \in AccessJoinMessages : JoinDocument(c, m)
  \/ \E j \in joins : VerifyDone(j)
  \/ \E j \in joins : FindDocumentDone(j)
  \/ \E j \in joins : FindShareDone(j)
  \/ \E j \in joins : FindLinkDone(j)
  \/ \E j \in joins : DbLoadDone(j)
  \/ \E c \in Clients : Deliver(c)

SpecAccess == InitAccess /\ [][NextAccess]_vars

\* the ordering of the grants: owner, else explicit share, else a link of the
\* document with this token that has no expiry or expires after at, else
\* no access
AccessOrder(documents, shares, links, documentId, userId, shareToken, at) ==
  IF documents[documentId] = userId THEN Granted("owner")
  ELSE IF \E s \in shares : s.documentId = documentId /\ s.userId = userId
  THEN Granted((CHOOSE s \in shares :
                  s.documentId = documentId /\ s.userId = userId).permission)
  ELSE IF \E l \in links : /\ l.documentId = documentId /\ l.token = shareToken
                            /\ (l.expiresAt = 0 \/ l.expiresAt > at)
  THEN Granted((CHOOSE l \in links : /\ l.documentId = documentId /\ l.token = shareToken
                                     /\ (l.expiresAt = 0 \/ l.expiresAt > at)).permission)
  ELSE Denied("noAccess")

\* the times a link's expiry is compared with
AccessTimes == {StartTime - 1, StartTime, StartTime + 1}

\* the resolver, as a function, follows the ordering on every table
ResolverFollowsOrder ==
  \A shares \in ShareTables : \A links \in SUBSET AllLinks :
    \A d \in Docs : \A u \in Users : \A k \in ShareTokens : \A at \in AccessTimes :
      getDocumentAccess([d1 |-> "u1", d2 |-> "u2"], shares, links, d, u, k, at)
        = AccessOrder([d1 |-> "u1", d2 |-> "u2"], shares, links, d, u, k, at)

\* handler j is at a query of the resolver and the resolver returns in this
\* step
ResolutionEnds(j) ==
  /\ j.stage \in {"findDocument", "findShare", "findLink"}
  /\ j \notin joins'
  /\ ~\E g \in joins' : g.conn = j.conn /\ g.seq = j.seq
                         /\ g.stage \in {"findShare", "findLink"}

\* handler j goes on with permission p: into getRoom's load, or, when the
\* document has a Room, to the registration and the doc_sync
GoesOnWith(j, p) ==
  \/ \E g \in joins' : /\ g.conn = j.conn /\ g.seq = j.seq
                        /\ g.stage \in {"redisGet", "dbLoad"}
                        /\ g.permission = p
  \/ /\ \A g \in joins' : ~(g.conn = j.conn /\ g.seq = j.seq)
     /\ j.conn \in DOMAIN connectionState'
     /\ connectionState'[j.conn] = [documentId |-> j.documentId, userId |-> j.auth.userId,
                                    permission |-> p]
     /\ Len(frames'[j.conn]) > Len(frames[j.conn])
     /\ frames'[j.conn][Len(frames[j.conn]) + 1].type = "doc_sync"

\* handler j ends in this step with one error frame and close()
RefusedWith(j, message) ==
  /\ \A g \in joins' : ~(g.conn = j.conn /\ g.seq = j.seq)
  /\ frames'[j.conn] = Append(frames[j.conn], ErrorFrame(message))
  /\ readyState'[j.conn] = "CLOSING"

\* C13: Access ordering.  For every existing document, user and share token
\* and every content of the share and link tables, the resolver returns
\* owner, else the explicit share's permission, else the permission of an
\* unexpired link of the document with that token, else no access; the join
\* handler goes on with exactly that permission or refuses with Access
\* denied.
C13_AccessOrder ==
  [][ /\ ResolverFollowsOrder
      /\ \A j \in joins :
           ( /\ ResolutionEnds(j)
             /\ j.documentId \in DOMAIN dbDocuments
             /\ readyState[j.conn] = "OPEN" )
           => LET at == IF j.stage = "findLink" THEN j.at ELSE now
                  res == AccessOrder(dbDocuments, dbShares, dbLinks, j.documentId,
                                     j.auth.userId, j.shareToken, at)
              IN IF res.error = "" THEN GoesOnWith(j, res.permission)
                 ELSE RefusedWith(j, "Access denied") ]_vars

\* u2, who has no share row, is joined to d1 as editor: by the link that is
\* not expired yet
C13_Witness ==
  \E c \in DOMAIN connectionState :
    /\ connectionState[c] = [documentId |-> "d1", userId |-> "u2", permission |-> "editor"]
    /\ \A s \in dbShares : s.userId # "u2"
    /\ Dispatched(c)
    /\ firstReceived[c] = "doc_sync"

\* the error message the denial of a join calls for, "" when the join is
\* granted: Unauthorized for a token that is missing or does not verify,
\* Document not found for an invalid id or a missing document, Access denied
\* when the document grants nothing
ClaimedDenial(token, documentId, shareToken, at) ==
  IF token = "" \/ verifyToken(token) = NoAuth THEN "Unauthorized"
  ELSE IF InvalidId(documentId) \/ documentId \notin DOMAIN dbDocuments
  THEN "Document not found"
  ELSE IF AccessOrder(dbDocuments, dbShares, dbLinks, documentId,
                      verifyToken(token).userId, shareToken, at).error # ""
  THEN "Access denied"
  ELSE ""

\* the same, but a join without documentId is Unauthorized like a join
\* without token
ActualDenial(token, documentId, shareToken, at) ==
  IF token = "" \/ documentId = "" THEN "Unauthorized"
  ELSE ClaimedDenial(token, documentId, shareToken, at)

\* the step writes connection c, which is open, the one error frame and
\* closes it, writes nobody else, and creates and registers nothing; on a
\* connection that is not open any more it changes nothing
DeniedOn(c, message) ==
  /\ rooms' = rooms /\ roomObjs' = roomObjs /\ connectionState' = connectionState
  /\ \A o \in Conns \ {c} : frames'[o] = frames[o] /\ readyState'[o] = readyState[o]
  /\ IF readyState[c] = "OPEN"
     THEN /\ frames'[c] = Append(frames[c], ErrorFrame(message))
          /\ readyState'[c] = "CLOSING"
     ELSE frames'[c] = frames[c] /\ readyState'[c] = readyState[c]

\* the join handler j ends in this step, before getRoom
EndsBeforeRoom(j) ==
  /\ j.stage \in {"verify", "findDocument", "findShare", "findLink"}
  /\ \A g \in joins' : ~(g.conn = j.conn /\ g.seq = j.seq)

\* every join that Denial(_, _, _, _) gives a message is denied with it
DenialsAnswered(Denial(_, _, _, _)) ==
  /\ \A c \in Conns : \A m \in AccessJoinMessages :
       (JoinDocument(c, m) /\ joins' = joins)
       => DeniedOn(c, Denial(m.token, m.documentId, m.shareToken, now))
  /\ \A j \in joins :
       LET at == IF j.stage = "findLink" THEN j.at ELSE now
           message == Denial(j.token, j.documentId, j.shareToken, at)
       IN (EndsBeforeRoom(j) /\ message # "") => DeniedOn(j.conn, message)

AllPayloads == UpdatePayloads \cup {encodeUpdate({Garbage}), NoPayload}

NextUpdates ==
  \/ \E c \in Clients, m \in PresenceJoinMessages : JoinDocument(c, m)
  \/ \E c \in Clients, u \in AllPayloads : YjsUpdate(c, u)
  \/ \E c \in Clients : LeaveDocument(c)
  \/ \E j \in joins : VerifyDone(j)
  \/ \E j \in joins : FindDocumentDone(j)
  \/ \E j \in joins : FindShareDone(j)
  \/ \E j \in joins : DbLoadDone(j)
  \/ \E c \in Clients : Deliver(c)

SpecUpdates == Init /\ [][NextUpdates]_vars

ReadOnlyAnswer(c) ==
  /\ frames'[c] = Append(frames[c], ErrorFrame("Read-only access"))
  /\ readyState'[c] = "OPEN"
  /\ connectionState' = connectionState
  /\ rooms' = rooms /\ roomObjs' = roomObjs

OpsStep == 30000
OpsMaxTime == 90000

\* GET /metrics: getOpsPerMinute shifts the expired entries out and returns
\* the length
Metrics ==
  /\ Quiet
  /\ operations' = DropExpired(operations, now)
  /\ UNCHANGED << now, nextSweep, relayVars, joins, persists, firstReceived, clientDoc, budget,
                  storeVars >>

Elapse ==
  /\ Quiet
  /\ now + OpsStep <= StartTime + OpsMaxTime
  /\ now' = now + OpsStep
  /\ UNCHANGED << nextSweep, relayVars, joins, persists, firstReceived, clientDoc, budget,
                  operations, storeVars >>

NextOps ==
  \/ \E c \in Clients, m \in PresenceJoinMessages : JoinDocument(c, m)
  \/ \E c \in Clients, u \in AllPayloads : YjsUpdate(c, u)
  \/ \E j \in joins : VerifyDone(j)
  \/ \E j \in joins : FindDocumentDone(j)
  \/ \E j \in joins : FindShareDone(j)
  \/ \E j \in joins : DbLoadDone(j)
  \/ \E c \in Clients : Deliver(c)
  \/ Metrics
  \/ Elapse

SpecOps == Init /\ [][NextOps]_vars

\* the entries of the last 60 s
InWindow(ops) ==
  LET Recent(t) == now - t <= opsWindowMs
  IN SelectSeq(ops, Recent)

\* the frame is a yjs_update of a connection joined as owner or editor whose
\* update decodes and applies
Applies(c, u) ==
  /\ Dispatched(c)
  /\ connectionState[c].permission \in {"owner", "editor"}
  /\ u.present
  /\ Garbage \notin u.b64

\* C17: Operation counter.  A yjs_update frame adds one entry, with the
\* current time, iff it comes from a connection joined as owner or editor and
\* its update is applied; no other step adds an entry; opsPerMinute is the
\* number of entries of the last 60 s.
C17_OpsCounter ==
  [][ /\ \A c \in Conns : \A u \in AllPayloads :
           YjsUpdate(c, u) =>
             operations' = IF Applies(c, u) THEN Append(InWindow(operations), now)
                           ELSE operations
      /\ Metrics => /\ getOpsPerMinute(operations) = Len(InWindow(operations))
                    /\ operations' = InWindow(operations)
      /\ (~Metrics /\ \A c \in Conns : \A u \in AllPayloads : ~YjsUpdate(c, u))
         => operations' = operations ]_vars

\* an update was applied more than 60 s ago and is not counted any more,
\* while a later one is
C17_Witness ==
  /\ \E r \in 1..Len(roomObjs) : roomObjs[r].doc = Updates
  /\ Len(operations) = 1
  /\ getOpsPerMinute(operations) = 1

(***************************************************************************)
(* Every type of frame on document d1                                      *)
(***************************************************************************)
NextFrames ==
  \/ \E c \in Clients, m \in PresenceJoinMessages : JoinDocument(c, m)
  \/ \E c \in Clients, u \in AllPayloads : YjsUpdate(c, u)
  \/ \E c \in Clients, m \in CursorMessages : CursorUpdate(c, m)
  \/ \E c \in Clients : LeaveDocument(c)
  \/ \E c \in Clients : Heartbeat(c)
  \/ \E c \in Clients : UnknownFrame(c)
  \/ \E j \in joins : VerifyDone(j)
  \/ \E j \in joins : FindDocumentDone(j)
  \/ \E j \in joins : FindShareDone(j)
  \/ \E j \in joins : DbLoadDone(j)
  \/ \E c \in Clients : Deliver(c)

SpecFrames == Init /\ [][NextFrames]_vars

\* the "message" event of a frame of connection c of a type other than
\* join_document
NonJoinFrame(c) ==
  \/ \E u \in AllPayloads : YjsUpdate(c, u)
  \/ \E m \in CursorMessages : CursorUpdate(c, m)
  \/ LeaveDocument(c)
  \/ Heartbeat(c)
  \/ UnknownFrame(c)

\* C18: Not joined.  Every frame other than join_document of an open
\* connection that has no connectionState entry is answered with the error
\* frame Not joined; the connection stays open, nobody else is written, and
\* no Room, presence or connectionState changes.
C18_NotJoined ==
  [][\A c \in Conns :
       (c \notin DOMAIN connectionState /\ readyState[c] = "OPEN" /\ NonJoinFrame(c))
       => /\ frames' = [frames EXCEPT ![c] = Append(@, ErrorFrame("Not joined"))]
          /\ readyState' = readyState
          /\ rooms' = rooms /\ roomObjs' = roomObjs
          /\ connectionState' = connectionState]_vars

\* a connection that joined and left holds the error frame and is open
C18_Witness ==
  \E c \in Conns :
    /\ firstReceived[c] = "doc_sync"
    /\ c \notin DOMAIN connectionState
    /\ readyState[c] = "OPEN"
    /\ frames[c] = << ErrorFrame("Not joined") >>
    /\ \E r \in 1..Len(roomObjs) : c \notin roomObjs[r].connections

(***************************************************************************)
(* The persist timer                                                       *)
(***************************************************************************)
\* C20: Persist timer.  A Room never has more than one pending persist
\* timer; a yjs_update that is applied starts one only when the Room has
\* none, due 1000 ms later when the cache is ready at that moment and 5000 ms
\* later otherwise; the step that handles the update starts no persist and
\* writes neither the cache nor the durable store.
C20_OneTimer ==
  [][ /\ \A r \in 1..Len(roomObjs') : Len(roomObjs'[r].timers) <= 1
      /\ \A c \in Conns : \A u \in UpdatePayloads :
           YjsUpdate(c, u) =>
             /\ \A r \in 1..Len(roomObjs) :
                  roomObjs'[r].timers =
                    IF Applies(c, u) /\ r = RoomOf(c) /\ roomObjs[r].timers = << >>
                    THEN << now + (IF RedisReady THEN 1000 ELSE 5000) >>
                    ELSE roomObjs[r].timers
             /\ UNCHANGED << persists, cache, versions, lastDbPersist >> ]_vars

\* two updates were applied at one time while the cache was ready, and the Room
\* has the one timer of the first
C20_Witness ==
  /\ Len(operations) = 2
  /\ operations[1] = now /\ operations[2] = now
  /\ \E r \in 1..Len(roomObjs) : roomObjs[r].timers = << now + 1000 >>


(***************************************************************************)
(* Cache outage: the durable store alone                                   *)
(***************************************************************************)
\* the cache never becomes ready and the durable store answers every query
NextDurable ==
  \/ \E c \in Clients, m \in PersistJoinMessages : JoinDocument(c, m)
  \/ \E c \in Clients, u \in UpdatePayloads : YjsUpdate(c, u)
  \/ \E j \in joins : VerifyDone(j)
  \/ \E j \in joins : FindDocumentDone(j)
  \/ \E j \in joins : DbLoadDone(j)
  \/ \E c \in Clients : Deliver(c)
  \/ \E r \in 1..Len(roomObjs) : PersistFire(r)
  \/ \E p \in persists : PersistFindLatestDone(p)
  \/ \E p \in persists : PersistFindOwnerDone(p)
  \/ \E p \in persists : PersistCreateDone(p)
  \/ Sweep
  \/ Tick

SpecDurable == Init /\ [][NextDurable]_vars

\* nothing is left to do: no join or persist in flight, no timer pending, no
\* frame on its way
Quiesced ==
  /\ Quiet
  /\ joins = {} /\ persists = {}
  /\ \A r \in 1..Len(roomObjs) : roomObjs[r].timers = << >>

\* the updates applied so far form one burst: each came within 5 s of the one
\* before
OneBurst ==
  /\ operations # << >>
  /\ \A i \in 1..(Len(operations) - 1) :
       operations[i + 1] - operations[i] <= dbPersistIntervalMs

\* the updates applied so far all came at one time, hence before the timer of
\* the first could fire
OnePeriod ==
  /\ operations # << >>
  /\ \A i \in 1..Len(operations) : operations[i] = operations[1]

\* the document of every Room that holds content has exactly one Auto-save row,
\* written for the owner with the Room's state
OneRowPerRoom ==
  \A r \in 1..Len(roomObjs) :
    roomObjs[r].doc # {} =>
      LET d == roomObjs[r].documentId
      IN /\ Cardinality(AutoSaves(d)) = 1
         /\ \A i \in AutoSaves(d) :
              /\ versions[i].authorId = dbDocuments[d]
              /\ versions[i].snapshot = encodeUpdate(encodeStateAsUpdate(roomObjs[r].doc))

SingleRoom ==
  \A r1, r2 \in 1..Len(roomObjs) :
    roomObjs[r1].documentId = roomObjs[r2].documentId => r1 = r2

Started ==
  {p \in persists' : \A q \in persists : q.room # p.room \/ q.firedAt # p.firedAt}

\* C21: Persist after update.  The timer's callback clears the Room's
\* persistTimeout in the step that starts persistRoom, and persistRoom
\* encodes the Room's state of that moment; an applied update leaves the Room
\* with a pending timer, also while a persist of the Room is in flight; a
\* Room's state changes only in a step that leaves a timer pending, and a
\* timer goes only by firing.
C21_PersistAfterUpdate ==
  [][ /\ \A r \in 1..Len(roomObjs) :
           PersistFire(r) =>
             /\ roomObjs'[r].persistTimeout = -1
             /\ \A p \in Started :
                  /\ p.room = r
                  /\ p.snapshot = encodeUpdate(encodeStateAsUpdate(roomObjs[r].doc))
             /\ persists \subseteq persists'
      /\ \A c \in Conns : \A u \in UpdatePayloads :
           (YjsUpdate(c, u) /\ Applies(c, u)) => roomObjs'[RoomOf(c)].timers # << >>
      /\ \A r \in 1..Len(roomObjs) :
           /\ roomObjs'[r].doc # roomObjs[r].doc => roomObjs'[r].timers # << >>
           /\ (roomObjs[r].timers # << >> /\ roomObjs'[r].timers = << >>) => PersistFire(r)
           /\ (Started # {} \/ Len(roomObjs'[r].timers) < Len(roomObjs[r].timers))
                => \E q \in 1..Len(roomObjs) : PersistFire(q) ]_vars

\* a persist of the Room is in flight with the state of its fire time, the
\* Room has gained an update since, and a new timer is pending for it
C21_Witness ==
  \E p \in persists :
    /\ roomObjs[p.room].persistTimeout # -1
    /\ roomObjs[p.room].timers # << >>
    /\ p.snapshot # encodeUpdate(encodeStateAsUpdate(roomObjs[p.room].doc))


(***************************************************************************)
(* Save path                                                               *)
(***************************************************************************)
\* C22: Save path, cache ready.  A persist that starts while the cache is
\* ready goes to the cache; when its redis.set succeeds, the key
\* doc:<documentId>:state holds the snapshot, every other key is as before,
\* the persist is over, and neither the versions table nor lastDbPersist has
\* changed.
C22_CachePath ==
  [][ /\ \A r \in 1..Len(roomObjs) :
           (PersistFire(r) /\ RedisReady) =>
             /\ \A p \in Started : p.stage = "redisSet"
             /\ UNCHANGED << cache, versions, lastDbPersist >>
      /\ \A p \in persists :
           RedisSetDone(p) =>
             /\ DOMAIN cache' = DOMAIN cache \cup {<<"doc", p.documentId, "state">>}
             /\ \A k \in DOMAIN cache' :
                  cache'[k] = IF k = <<"doc", p.documentId, "state">>
                              THEN p.snapshot ELSE cache[k]
             /\ \A q \in persists' : q \in persists /\ q # p
             /\ UNCHANGED << versions, lastDbPersist >> ]_vars

\* the cache holds a document's state and the durable store was never written
C22_Witness ==
  /\ <<"doc", "d1", "state">> \in DOMAIN cache
  /\ cache[<<"doc", "d1", "state">>].b64 # {}
  /\ persists = {}
  /\ versions = << >> /\ lastDbPersist = << >>


(***************************************************************************)
(* Cache failure                                                           *)
(***************************************************************************)
\* one editor on d1; the cache connects, becomes ready and is closed by its
\* server, with cache writes in flight
NextCache ==
  \/ \E c \in AccessConns, m \in PersistJoinMessages : JoinDocument(c, m)
  \/ \E c \in AccessConns, u \in UpdatePayloads : YjsUpdate(c, u)
  \/ \E j \in joins : VerifyDone(j)
  \/ \E j \in joins : FindDocumentDone(j)
  \/ \E j \in joins : RedisGetDone(j)
  \/ \E j \in joins : DbLoadDone(j)
  \/ \E c \in Clients : Deliver(c)
  \/ \E r \in 1..Len(roomObjs) : PersistFire(r)
  \/ \E p \in persists : RedisSetDone(p)
  \/ \E p \in persists, connectionClosed \in BOOLEAN : RedisSetFailed(p, connectionClosed)
  \/ \E p \in persists : PersistFindLatestDone(p)
  \/ \E p \in persists : PersistFindOwnerDone(p)
  \/ \E p \in persists : PersistCreateDone(p)
  \/ RedisConnect
  \/ RedisBecomesReady
  \/ RedisClose
  \/ Sweep
  \/ Tick

SpecCache == Init /\ [][NextCache]_vars

\* persist p goes on in the durable branch, or has stopped at the rate limit
FallsThrough(p) ==
  /\ \A q \in persists' : q \in persists \/ (q.room = p.room /\ q.firedAt = p.firedAt)
  /\ p \notin persists'
  /\ IF now - LastPersist(p.documentId) < 5000
     THEN persists' = persists \ {p}
     ELSE \E q \in persists' :
            q.room = p.room /\ q.firedAt = p.firedAt /\ q.stage = "findLatest"

\* a rejected cache write clears redisAvailable and goes on in the durable
\* branch, and persistRoom chooses its branch by the readiness at its call
FailureFallsThrough ==
  /\ \A p \in persists :
       RedisSetFailed(p, TRUE) =>
         /\ ~redisAvailable' /\ ~RedisReady'
         /\ FallsThrough(p)
         /\ UNCHANGED << cache, versions, lastDbPersist >>
  /\ \A r \in 1..Len(roomObjs) :
       PersistFire(r) =>
         \A p \in Started : p.stage = IF RedisReady THEN "redisSet" ELSE "findLatest"

Preceding(i, k) ==
  /\ i < k
  /\ versions[i].documentId = versions[k].documentId
  /\ \A j \in (i + 1)..(k - 1) : versions[j].documentId # versions[k].documentId

\* applying an update a second time changes nothing
ApplyIdempotent ==
  \A doc \in SUBSET Updates : \A u \in SUBSET Updates :
    applyUpdate(applyUpdate(doc, u), u) = applyUpdate(doc, u)

\* C24: Only if changed.  Applying an update twice gives the state of
\* applying it once, and an Auto-save row is never written with the snapshot
\* that the latest row of its document already has.
C24_OnlyIfChanged ==
  /\ ApplyIdempotent
  /\ \A k \in 1..Len(versions) :
       versions[k].summary = "Auto-save" =>
         \A i \in 1..(k - 1) :
           Preceding(i, k) => versions[i].snapshot # versions[k].snapshot


(***************************************************************************)
(* Room creation: the load path                                            *)
(***************************************************************************)
VersionRow(documentId, snapshot, createdAt) ==
  [documentId |-> documentId, authorId |-> "u1", summary |-> "Manual save",
   snapshot |-> snapshot, createdAt |-> createdAt]

\* what an earlier run of the relay and the API may have left in the cache
LoadCaches ==
  { << >>,
    Put(<< >>, getRedisKey("d1"), encodeUpdate({"a"})),
    Put(<< >>, getRedisKey("d1"), NoPayload),
    Put(<< >>, getRedisKey("d2"), encodeUpdate({"a"})) }

\* and in the versions table: in and out of createdAt order, with equal
\* createdAt, with an empty snapshot in the latest row, of another document
LoadVersions ==
  { << >>,
    << VersionRow("d1", encodeUpdate({"b"}), 1) >>,
    << VersionRow("d1", encodeUpdate({"a"}), 1), VersionRow("d1", encodeUpdate({"a", "b"}), 2) >>,
    << VersionRow("d1", encodeUpdate({"b"}), 2), VersionRow("d1", encodeUpdate({"a"}), 1) >>,
    << VersionRow("d1", encodeUpdate({"a"}), 1), VersionRow("d1", encodeUpdate({"b"}), 1) >>,
    << VersionRow("d1", encodeUpdate({"a"}), 1), VersionRow("d1", NoPayload, 2) >>,
    << VersionRow("d2", encodeUpdate({"b"}), 1) >> }

\* the relay starts next to stores that hold data
InitLoad ==
  /\ now = StartTime
  /\ nextSweep = StartTime + heartbeatIntervalMs
  /\ rooms = << >>
  /\ roomObjs = << >>
  /\ connectionState = << >>
  /\ readyState = [c \in Conns |-> "OPEN"]
  /\ joins = {}
  /\ persists = {}
  /\ frames = [c \in Conns |-> << >>]
  /\ firstReceived = [c \in Conns |-> ""]
  /\ clientDoc = [c \in Conns |-> {}]
  /\ operations = << >>
  /\ cache \in LoadCaches
  /\ versions \in LoadVersions
  /\ lastDbPersist = << >>
  /\ dbUp = TRUE
  /\ InitTables
  /\ budget = MaxFrames
  /\ redisAvailable = FALSE
  /\ redisStatus = "connecting"

NextLoad ==
  \/ \E c \in AccessConns, m \in PersistJoinMessages : JoinDocument(c, m)
  \/ \E j \in joins : VerifyDone(j)
  \/ \E j \in joins : FindDocumentDone(j)
  \/ \E j \in joins : RedisGetDone(j)
  \/ \E j \in joins : DbLoadDone(j)
  \/ \E c \in Clients : Deliver(c)
  \/ RedisConnect
  \/ RedisBecomesReady
  \/ RedisClose
  \/ DbFails
  \/ DbRecovers

SpecLoad == InitLoad /\ [][NextLoad]_vars

\* the rows of the document with the greatest createdAt
NewestRows(documentId) ==
  {i \in 1..Len(versions) :
     /\ versions[i].documentId = documentId
     /\ ~\E k \in 1..Len(versions) :
           /\ versions[k].documentId = documentId
           /\ versions[k].createdAt > versions[i].createdAt}

\* the states a Room may start with when the load took the durable store
DurableDocs(documentId) ==
  IF dbUp /\ NewestRows(documentId) # {}
  THEN {IF versions[i].snapshot.present THEN versions[i].snapshot.b64 ELSE {} :
          i \in NewestRows(documentId)}
  ELSE {{}}

\* the join in flight j is over after the step
Over(j) == \A k \in joins' : k.conn # j.conn \/ k.seq # j.seq

\* the step has created a Room with state doc for the document of j, made the
\* connection of j a member and sent it doc_sync with that state, and has
\* neither sent an error frame nor closed the connection
CreatedWith(j, doc) ==
  /\ Len(roomObjs') = Len(roomObjs) + 1
  /\ LET r == Len(roomObjs')
     IN /\ roomObjs'[r].documentId = j.documentId
        /\ roomObjs'[r].doc = doc
        /\ j.conn \in roomObjs'[r].connections
        /\ RoomsHas(rooms', j.documentId) /\ RoomsGet(rooms', j.documentId) = r
  /\ j.conn \in DOMAIN connectionState'
  /\ readyState' = readyState
  /\ readyState[j.conn] = "OPEN" =>
       /\ Len(frames'[j.conn]) > Len(frames[j.conn])
       /\ frames'[j.conn][Len(frames[j.conn]) + 1] =
            [type |-> "doc_sync", documentId |-> j.documentId,
             update |-> [present |-> TRUE, b64 |-> doc], users |-> NoUsers, message |-> ""]
  /\ \A c \in Conns : \A n \in 1..Len(frames'[c]) : frames'[c][n].type # "error"

\* C25: Room creation load path.  A load that asked the cache ends with a Room
\* of the cached state when the cache is ready and holds bytes, and goes on to
\* the durable store otherwise; a load from the durable store ends with a Room
\* of the latest version's snapshot, empty when the store fails, has no version
\* of the document or the latest snapshot is empty.  The load never fails the
\* join: the Room is created and the joiner gets doc_sync.
C25_LoadPath ==
  [][\A j \in joins :
       /\ (j.stage = "redisGet" /\ (RedisGetDone(j) \/ Over(j))) =>
            LET key == <<"doc", j.documentId, "state">>
            IN IF redisStatus = "ready" /\ key \in DOMAIN cache /\ cache[key].present
               THEN CreatedWith(j, cache[key].b64)
               ELSE /\ \E k \in joins' : k.conn = j.conn /\ k.seq = j.seq /\ k.stage = "dbLoad"
                    /\ UNCHANGED relayVars
       /\ (j.stage = "dbLoad" /\ (DbLoadDone(j) \/ Over(j))) =>
            \E doc \in DurableDocs(j.documentId) : CreatedWith(j, doc) ]_vars

\* Rooms were created from the cache, from the durable store and empty after a
\* failure of the store during the load
C25_Witness ==
  /\ ~dbUp
  /\ versions = << VersionRow("d1", encodeUpdate({"b"}), 1) >>
  /\ <<"doc", "d1", "state">> \in DOMAIN cache
  /\ Len(roomObjs) = 3
  /\ roomObjs[1].doc = {"a"} /\ roomObjs[2].doc = {"b"} /\ roomObjs[3].doc = {}
  /\ \A c \in Conns : frames[c] = << >>

(***************************************************************************)
(* Fan-out                                                                 *)
(***************************************************************************)
\* connection q has been sent a yjs_update frame in the step
GetsUpdate(q) ==
  /\ Len(frames'[q]) > Len(frames[q])
  /\ \E n \in (Len(frames[q]) + 1)..Len(frames'[q]) : frames'[q][n].type = "yjs_update"

\* C26: Fan-out.  A yjs_update that is applied appends one yjs_update frame,
\* with the sender's payload as it came, to every connection of the Room other
\* than the sender that is open, and nothing to the sender or to a connection
\* that is not in the Room; no other step sends a yjs_update frame.
C26_FanOut ==
  [][ /\ \A c \in Conns : \A u \in UpdatePayloads :
           (YjsUpdate(c, u) /\ Applies(c, u)) =>
             \A q \in Conns :
               frames'[q] =
                 IF /\ q # c
                    /\ q \in roomObjs[RoomOf(c)].connections
                    /\ readyState[q] = "OPEN"
                 THEN Append(frames[q],
                             [type |-> "yjs_update",
                              documentId |-> connectionState[c].documentId,
                              update |-> u, users |-> NoUsers, message |-> ""])
                 ELSE frames[q]
      /\ (\E q \in Conns : GetsUpdate(q)) =>
           \E c \in Conns : \E u \in UpdatePayloads : YjsUpdate(c, u) /\ Applies(c, u) ]_vars

\* an update of one member is on its way to the other member of the Room and
\* to nobody else
C26_Witness ==
  \E c, q \in Conns :
    /\ c # q
    /\ \E r \in 1..Len(roomObjs) : {c, q} \subseteq roomObjs[r].connections
    /\ clientDoc[c] # {}
    /\ Len(frames[q]) = 1 /\ frames[q][1].type = "yjs_update"
    /\ frames[q][1].update.b64 = clientDoc[c]
    /\ \A o \in Conns \ {q} : frames[o] = << >>


(***************************************************************************)
(* Fan-out with three members                                              *)
(***************************************************************************)
\* the join in flight of connection c once access has been granted
GrantedJoin(c, m, permission) ==
  [conn |-> c, seq |-> 0, token |-> m.token, documentId |-> m.documentId,
   shareToken |-> m.shareToken, user |-> m.user, cursorPosition |-> m.cursorPosition,
   selectionRange |-> m.selectionRange, stage |-> "dbLoad",
   auth |-> verifyToken(m.token), permission |-> permission, at |-> 0]

\* the relay after c1 and c2 (both of the owner u1) and c3 (the viewer u2)
\* have joined d1 one after the other and read their frames
JoinedRelay ==
  LET S0 == [rooms |-> << >>, roomObjs |-> << >>, connectionState |-> << >>,
             readyState |-> [c \in Conns |-> "OPEN"], frames |-> [c \in Conns |-> << >>]]
      S1 == CreateRoomAndRegister(S0, GrantedJoin("c1", JoinMessage("tok_u1", "d1", ""), "owner"), {})
      S2 == Register(S1, GrantedJoin("c2", JoinMessage("tok_u1", "d1", ""), "owner"), 1)
      S3 == Register(S2, GrantedJoin("c3", JoinMessage("tok_u2", "d1", ""), "viewer"), 1)
  IN [S3 EXCEPT !.frames = [c \in Conns |-> << >>]]

InitJoined ==
  /\ now = StartTime
  /\ nextSweep = StartTime + heartbeatIntervalMs
  /\ rooms = JoinedRelay.rooms
  /\ roomObjs = JoinedRelay.roomObjs
  /\ connectionState = JoinedRelay.connectionState
  /\ readyState = JoinedRelay.readyState
  /\ frames = JoinedRelay.frames
  /\ joins = {}
  /\ persists = {}
  /\ firstReceived = [c \in Conns |-> "doc_sync"]
  /\ clientDoc = [c \in Conns |-> {}]
  /\ operations = << >>
  /\ cache = << >>
  /\ versions = << >>
  /\ lastDbPersist = << >>
  /\ dbUp = TRUE
  /\ InitTables
  /\ budget = MaxFrames
  /\ redisAvailable = FALSE
  /\ redisStatus = "connecting"


\* what each client's edits encode: the two tabs of u1 make different edits
SenderPayloads ==
  [c1 |-> UpdatePayloads, c2 |-> {encodeUpdate({"a", "b"})}, c3 |-> UpdatePayloads]

\* frames come in while earlier broadcasts are in the outboxes; sockets fail
\* and close
NextFanOut ==
  \/ \E c \in Conns : \E u \in SenderPayloads[c] : YjsUpdateQueued(c, u)
  \/ \E c \in Conns : Deliver(c)
  \/ \E c \in Conns : WriteFails(c)
  \/ \E c \in Conns : TransportClose(c)

SpecFanOut == InitJoined /\ [][NextFanOut]_vars

AnyPayloads == UNION {SenderPayloads[c] : c \in Conns}

\* C27: Peer writes are independent.  A write that fails on one connection
\* loses that connection's frames and nothing else: the frames of the other
\* connections, the Room's state and its persist timer are as before.  An
\* applied update reaches every open member other than the sender whatever the
\* state of the remaining members, is in the Room's state and has a timer
\* pending.
C27_IndependentWrites ==
  [][ /\ \A q \in Conns :
           WriteFails(q) =>
             /\ \A o \in Conns \ {q} : frames'[o] = frames[o] /\ readyState'[o] = readyState[o]
             /\ UNCHANGED << rooms, roomObjs, operations, persists >>
      /\ \A c \in Conns : \A u \in AnyPayloads :
           (YjsUpdateQueued(c, u) /\ Applies(c, u)) =>
             LET r == RoomOf(c)
             IN /\ \A o \in roomObjs[r].connections \ {c} :
                     readyState[o] = "OPEN" =>
                       /\ Len(frames'[o]) = Len(frames[o]) + 1
                       /\ frames'[o][Len(frames'[o])].type = "yjs_update"
                       /\ frames'[o][Len(frames'[o])].update = u
                /\ u.b64 \subseteq roomObjs'[r].doc
                /\ roomObjs'[r].timers # << >> ]_vars

\* the write to one peer has failed, the other peer has the update, and the
\* update is applied with its timer pending
C27_Witness ==
  \E q, o \in Conns :
    /\ q # o
    /\ readyState[q] = "TERMINATED" /\ clientDoc[q] = {} /\ frames[q] = << >>
    /\ readyState[o] = "OPEN" /\ clientDoc[o] # {}
    /\ \A c \in Conns \ {q} : clientDoc[c] = clientDoc[o]
    /\ budget = MaxFrames - 1
    /\ \E r \in 1..Len(roomObjs) :
         /\ {q, o} \subseteq roomObjs[r].connections
         /\ roomObjs[r].doc = clientDoc[o]
         /\ roomObjs[r].timers # << >>


(***************************************************************************)
(* Order of delivery                                                       *)
(***************************************************************************)
\* the updates of sender s that are on their way to connection q, in order
UpdatesFrom(s, q) ==
  LET FromS(f) == f.type = "yjs_update" /\ f.update \in SenderPayloads[s]
  IN SelectSeq(frames[q], FromS)

IsSuffix(a, b) ==
  Len(a) <= Len(b) /\ a = SubSeq(b, Len(b) - Len(a) + 1, Len(b))

IsPrefix(a, b) ==
  Len(a) <= Len(b) /\ a = SubSeq(b, 1, Len(a))

\* connection q is an open member of Room r
OpenMember(q, r) == q \in roomObjs[r].connections /\ readyState[q] = "OPEN"

\* C28: Per-sender ordering.  What two open members of a Room have still to
\* read of a sender's updates is the same sequence up to what one of them has
\* read already; a step puts frames at the end of an open connection's stream
\* or hands its first frame to the client, so that each peer reads the updates
\* in the order in which they were applied, none left out.
C28_SenderOrder ==
  /\ [](\A s \in Clients : \A r \in 1..Len(roomObjs) : \A p, q \in Conns \ {s} :
          (OpenMember(p, r) /\ OpenMember(q, r)) =>
            \/ IsSuffix(UpdatesFrom(s, p), UpdatesFrom(s, q))
            \/ IsSuffix(UpdatesFrom(s, q), UpdatesFrom(s, p)))
  /\ [][\A q \in Conns :
          readyState'[q] = "OPEN" =>
            \/ IsPrefix(frames[q], frames'[q])
            \/ Deliver(q) /\ frames'[q] = Tail(frames[q])]_vars

\* two updates of one sender wait for one peer, in the order sent, while the
\* other peer has read the first
C28_Witness ==
  \E p, q \in Conns \ {"c1"} :
    /\ p # q
    /\ readyState[p] = "OPEN" /\ readyState[q] = "OPEN"
    /\ Len(UpdatesFrom("c1", p)) = 1
    /\ Len(UpdatesFrom("c1", q)) = 2
    /\ UpdatesFrom("c1", q)[1] # UpdatesFrom("c1", q)[2]
    /\ clientDoc[p] = UpdatesFrom("c1", q)[1].update.b64

(***************************************************************************)
(* The update step                                                         *)
(***************************************************************************)
\* the step is the whole yjs_update branch for a frame of connection c with
\* payload u on Room r: decodeUpdate and Y.applyUpdate, schedulePersist,
\* recordOperation and the frame written to every other open member
WholeUpdate(r, c, u) ==
  /\ Dispatched(c) /\ RoomOf(c) = r
  /\ ~ReadOnly(connectionState[c])
  /\ ~ApplyThrows(decodeUpdate(u))
  /\ roomObjs'[r].doc = applyUpdate(roomObjs[r].doc, decodeUpdate(u))
  /\ roomObjs'[r].persistTimeout # -1
  /\ roomObjs'[r].timers # << >>
  /\ operations' = recordOperation(operations)
  /\ \A q \in roomObjs[r].connections \ {c} :
        readyState[q] = "OPEN" =>
          frames'[q] = Append(frames[q], YjsUpdateFrame(connectionState[c].documentId, u))
  /\ roomObjs'[r].connections = roomObjs[r].connections
  /\ roomObjs'[r].presence = roomObjs[r].presence
  /\ rooms' = rooms /\ connectionState' = connectionState
  /\ persists' = persists /\ joins' = joins

\* the step does one of the parts of an update on Room r
PartOfUpdate(r) ==
  \/ roomObjs'[r].doc # roomObjs[r].doc
  \/ Len(roomObjs'[r].timers) > Len(roomObjs[r].timers)
  \/ \E q \in roomObjs[r].connections :
        /\ Len(frames'[q]) > Len(frames[q])
        /\ frames'[q][Len(frames'[q])].type = "yjs_update"

\* C29: The update step is atomic.  A step that does any part of an update
\* on a Room (the document changes, the persist timer is armed, an operation
\* is recorded, a yjs_update frame is written to a member) is the whole
\* yjs_update branch for one frame, and it is nothing else: in that step no
\* join or persist moves, no member or presence entry of the Room changes,
\* and the registry stays as it is.
C29_AtomicUpdate ==
  [][/\ \A r \in 1..Len(roomObjs) :
          PartOfUpdate(r) => \E c \in Conns : \E u \in UpdatePayloads : WholeUpdate(r, c, u)
     /\ operations' # operations =>
          \E r \in 1..Len(roomObjs) : \E c \in Conns : \E u \in UpdatePayloads :
             WholeUpdate(r, c, u)]_vars

\* a second update was applied, recorded and given its own timer while a
\* persistRoom call of the same Room, started with the state before it, was
\* suspended in an await
C29_Witness ==
  \E r \in 1..Len(roomObjs) : \E p \in persists :
    /\ p.room = r
    /\ Cardinality(roomObjs[r].doc) = 2
    /\ Len(operations) = 2
    /\ operations[2] > operations[1]
    /\ roomObjs[r].persistTimeout # -1
    /\ Len(roomObjs[r].timers) = 1
    /\ p.snapshot # encodeUpdate(encodeStateAsUpdate(roomObjs[r].doc))

(***************************************************************************)
(* Frames that refresh lastHeartbeat                                       *)
(***************************************************************************)
\* connection c has a presence entry in the Room its frames are dispatched to
HasEntry(c) == Dispatched(c) /\ PresenceHas(roomObjs[RoomOf(c)].presence, c)

\* the step is the handler of an inbound frame of connection c
InboundFrame(c) ==
  \/ \E m \in CursorMessages : CursorUpdate(c, m)
  \/ \E u \in UpdatePayloads : YjsUpdate(c, u)
  \/ Heartbeat(c)
  \/ Pong(c)

\* C30: Every inbound frame refreshes lastHeartbeat.  When a connection with
\* a presence entry sends a cursor_update, a yjs_update, a heartbeat or a
\* pong, the handler's step leaves the entry's lastHeartbeat at the current
\* time.
C30_RefreshOnEveryFrame ==
  [][\A c \in Conns :
       (HasEntry(c) /\ InboundFrame(c)) =>
          /\ HasEntry(c)'
          /\ PresenceGet(roomObjs'[RoomOf(c)].presence, c).lastHeartbeat = now]_vars

(***************************************************************************)
(* The life of a connection: joins, leave, close and the sweeper, with a   *)
(* clock that never stops                                                  *)
(***************************************************************************)
\* a timestamp seen TimeStep ms later; what is older than MaxTime is older
\* than heartbeatTimeoutMs and stays so
Rebased(t) == IF t - TimeStep < StartTime THEN StartTime ELSE t - TimeStep

\* the clock moves on past StartTime + MaxTime: Date.now() is kept and every
\* time the relay holds is moved back instead (the relay only compares
\* differences of times; no update is sent here, so that no persist timer
\* and no operation entry exists)
TickRebased ==
  /\ Quiet
  /\ ~TimerDue
  /\ now + TimeStep > StartTime + MaxTime
  /\ nextSweep' = nextSweep - TimeStep
  /\ roomObjs' = [r \in 1..Len(roomObjs) |->
                    [roomObjs[r] EXCEPT !.presence =
                       [i \in 1..Len(@) |->
                          [@[i] EXCEPT !.lastHeartbeat = Rebased(@)]]]]
  /\ UNCHANGED << now, rooms, connectionState, readyState, frames, joins, persists,
                  firstReceived, clientDoc, budget, operations, storeVars >>

NextLifecycle ==
  \/ \E c \in Clients, m \in PersistJoinMessages : JoinDocument(c, m)
  \/ \E c \in Clients : LeaveDocument(c)
  \/ \E c \in Clients : TransportClose(c)
  \/ \E j \in joins : VerifyDone(j)
  \/ \E j \in joins : FindDocumentDone(j)
  \/ \E j \in joins : DbLoadDone(j)
  \/ \E c \in Clients : Deliver(c)
  \/ Sweep
  \/ Tick
  \/ TickRebased

\* the clients send one frame less than elsewhere: two joins, or a join and
\* a leave
InitLifecycle ==
  /\ InitRelay
  /\ InitTables
  /\ budget = MaxFrames - 1
  /\ redisAvailable = FALSE
  /\ redisStatus = "connecting"

\* the awaited I/O of a join completes, the clients read what is sent to
\* them, the clock advances and the sweeper's setInterval keeps firing
SpecLifecycle ==
  /\ InitLifecycle
  /\ [][NextLifecycle]_vars
  /\ WF_vars(\E j \in joins : VerifyDone(j) \/ FindDocumentDone(j) \/ DbLoadDone(j))
  /\ WF_vars(\E c \in Clients : Deliver(c))
  /\ WF_vars(Sweep)
  /\ WF_vars(Tick \/ TickRebased)

\* connection c is in no Room's connections or presence and has no
\* connectionState entry
Gone(c) ==
  /\ c \notin DOMAIN connectionState
  /\ \A r \in 1..Len(roomObjs) :
        c \notin roomObjs[r].connections /\ ~PresenceHas(roomObjs[r].presence, c)

\* C32: Lifecycle liveness.  A connection whose transport has closed, be it
\* joined, not joined or with a join_document suspended in an await, is
\* eventually in no Room's connections or presence and not in
\* connectionState, while the sweeper keeps ticking.
C32_ReachesClosed ==
  \A c \in Clients : (readyState[c] \in {"CLOSED", "TERMINATED"}) ~> Gone(c)

(***************************************************************************)
(* Cleanup by the sweeper, the close handler and leave_document            *)
(***************************************************************************)
\* the step is a cleanup of connection c: its close handler, its
\* leave_document frame, or a sweeper tick that finds it stale
CleansUp(c) ==
  \/ TransportClose(c)
  \/ LeaveDocument(c)
  \/ Sweep /\ StaleConn(c)

\* the entries of the connections other than c are as they were
OthersKept(c) ==
  /\ \A o \in (DOMAIN connectionState) \ {c} :
        o \in DOMAIN connectionState' /\ connectionState'[o] = connectionState[o]
  /\ \A r \in 1..Len(roomObjs) :
        /\ roomObjs'[r].connections \ {c} = roomObjs[r].connections \ {c}
        /\ \A o \in Conns \ {c} :
              PresenceHas(roomObjs[r].presence, o) =>
                /\ PresenceHas(roomObjs'[r].presence, o)
                /\ PresenceGet(roomObjs'[r].presence, o) = PresenceGet(roomObjs[r].presence, o)

\* C31: Cleanup is idempotent.  The close handler or the leave_document of a
\* registered connection, or a sweeper tick that finds it stale, leaves the
\* connection in no Room's connections or presence and out of
\* connectionState; the close handler or a leave_document of a connection
\* that is registered nowhere changes no Room, no registry entry and no
\* connectionState entry; and the close handler and leave_document remove no
\* other connection's entries.
C31_IdempotentCleanup ==
  [][\A c \in Conns :
       /\ (CleansUp(c) /\ c \in DOMAIN connectionState) => Gone(c)'
       /\ ((TransportClose(c) \/ LeaveDocument(c)) /\ Gone(c)) =>
             UNCHANGED << rooms, roomObjs, connectionState >>
       /\ (TransportClose(c) \/ LeaveDocument(c)) => OthersKept(c)]_vars

(***************************************************************************)
(* Access resolution next to a durable store that fails                    *)
(***************************************************************************)
NextStoreErrors ==
  \/ NextAccess
  \/ DbFails
  \/ DbRecovers

SpecStoreErrors == InitAccess /\ [][NextStoreErrors]_vars

\* a query of the resolver made by handler j rejects in this step
LookupRejects(j) ==
  /\ ~dbUp
  /\ FindDocumentDone(j) \/ FindShareDone(j) \/ FindLinkDone(j)

\* C33: Store errors surface as not-found.  When the document lookup, the
\* explicit-share lookup or the share-link lookup of a join rejects, the
\* handler ends there: the connection is written the error frame Document
\* not found and closed, and nothing is created or registered.
C33_StoreErrorNotFound ==
  [][\A j \in joins :
       LookupRejects(j) =>
         EndsBeforeRoom(j) /\ DeniedOn(j.conn, "Document not found")]_vars

(***************************************************************************)
(* Updates that fail to decode or apply                                    *)
(***************************************************************************)
\* the frame is a yjs_update of a connection joined as owner or editor whose
\* bytes are no update
FailsToApply(c, u) ==
  /\ Dispatched(c)
  /\ connectionState[c].permission \in {"owner", "editor"}
  /\ u.present
  /\ Garbage \in u.b64

\* C34: Decode failure.  A yjs_update of an owner or editor whose bytes do
\* not apply is dropped: no frame is written to anybody, the sender's
\* readyState, connectionState entry and membership stay, no Room's doc,
\* timer or presence changes, no operation is recorded and no persist starts.
C34_DecodeFailure ==
  [][\A c \in Conns : \A u \in AllPayloads :
       (FailsToApply(c, u) /\ YjsUpdate(c, u)) =>
          /\ UNCHANGED << frames, readyState, connectionState, rooms, roomObjs >>
          /\ UNCHANGED << operations, persists, joins >>]_vars

\* an owner that is joined and open has sent a frame after its join that
\* left no trace: the Room is empty, no operation is recorded, no timer runs
C34_Witness ==
  \E c \in DOMAIN connectionState :
    /\ connectionState[c].permission = "owner"
    /\ Dispatched(c) /\ Member(c, RoomOf(c))
    /\ readyState[c] = "OPEN"
    /\ firstReceived[c] = "doc_sync"
    /\ budget = MaxFrames - 2
    /\ Len(roomObjs) = 1
    /\ roomObjs[1].doc = {} /\ roomObjs[1].timers = << >> /\ roomObjs[1].connections = {c}
    /\ operations = << >>
    /\ joins = {} /\ Quiet
    /\ \A o \in Conns \ {c} : firstReceived[o] = "" /\ readyState[o] = "OPEN"

(***************************************************************************)
(* Grants removed while a connection is joined                             *)
(***************************************************************************)
\* u1 joins d2 with the share link that makes it an editor; u2 joins d1,
\* where its share makes it a viewer
RevokeJoinMessages == {JoinMessage("tok_u1", "d2", "lnk"), JoinMessage("tok_u2", "d1", "")}

\* the API's DELETE of a share link, by the document's owner
RevokeLink(l) ==
  /\ Quiet
  /\ l \in dbLinks
  /\ dbLinks' = dbLinks \ {l}
  /\ UNCHANGED << now, nextSweep, relayVars, joins, persists, firstReceived, clientDoc, budget,
                  operations, redisAvailable, redisStatus, cache, versions, lastDbPersist, dbUp,
                  dbDocuments, dbShares >>

\* the API's DELETE of an explicit share, by the document's owner
RemoveShare(sh) ==
  /\ Quiet
  /\ sh \in dbShares
  /\ dbShares' = dbShares \ {sh}
  /\ UNCHANGED << now, nextSweep, relayVars, joins, persists, firstReceived, clientDoc, budget,
                  operations, redisAvailable, redisStatus, cache, versions, lastDbPersist, dbUp,
                  dbDocuments, dbLinks >>

NextRevoke ==
  \/ \E c \in Clients, m \in RevokeJoinMessages : JoinDocument(c, m)
  \/ \E c \in Clients, u \in UpdatePayloads : YjsUpdate(c, u)
  \/ \E j \in joins : VerifyDone(j)
  \/ \E j \in joins : FindDocumentDone(j)
  \/ \E j \in joins : FindShareDone(j)
  \/ \E j \in joins : FindLinkDone(j)
  \/ \E j \in joins : DbLoadDone(j)
  \/ \E c \in Clients : Deliver(c)
  \/ \E l \in dbLinks : RevokeLink(l)
  \/ \E sh \in dbShares : RemoveShare(sh)

SpecRevoke == Init /\ [][NextRevoke]_vars

\* the tables hold a grant for the user of connection c on its document:
\* ownership, an explicit share, or a link that has not expired
HasGrant(c, shares, links) ==
  LET st == connectionState[c]
  IN \/ dbDocuments[st.documentId] = st.userId
     \/ ShareRows(shares, st.documentId, st.userId) # {}
     \/ \E l \in links : l.documentId = st.documentId /\ LinkValid(l, now)

\* C35: Access revocation.  The step that removes the last grant of a joined
\* connection closes it, and no yjs_update of a connection without a grant
\* changes a Room's doc.
C35_Revocation ==
  [][\A c \in DOMAIN connectionState :
       /\ (HasGrant(c, dbShares, dbLinks) /\ ~HasGrant(c, dbShares', dbLinks')) =>
             readyState'[c] # "OPEN"
       /\ (~HasGrant(c, dbShares, dbLinks) /\ \E u \in UpdatePayloads : YjsUpdate(c, u)) =>
             \A r \in 1..Len(roomObjs) : roomObjs'[r].doc = roomObjs[r].doc]_vars

(***************************************************************************)
(* cursor_update frames that carry some of the three fields                *)
(***************************************************************************)
\* a cursor_update with each of cursorPosition, selectionRange and isTyping
\* present or missing
PartialCursorMessages ==
  {CursorMessage(p, sel, t) : p \in {NoCursor, 1},
                              sel \in {NoSelection, [start |-> 1, end |-> 2]},
                              t \in {Absent, "true", "false"}}

\* the three members send cursor_update frames until the sweeper's first
\* tick is due
NextCursor ==
  \/ \E c \in Conns, m \in PartialCursorMessages : CursorUpdate(c, m)
  \/ \E c \in Conns : Deliver(c)
  \/ Tick

SpecCursor == InitJoined /\ [][NextCursor]_vars

\* entry old of the sender with the fields that message m carries
Carried(old, m) ==
  [old EXCEPT !.cursorPosition = IF m.cursorPosition = NoCursor THEN @ ELSE m.cursorPosition,
              !.selectionRange = IF m.selectionRange = NoSelection THEN @ ELSE m.selectionRange,
              !.isTyping = IF m.isTyping = Absent THEN @ ELSE m.isTyping = "true"]

\* the step leaves the presence entries of the connections other than c,
\* every membership and every Room's doc and timers as they are
RestKept(c) ==
  /\ connectionState' = connectionState /\ rooms' = rooms /\ readyState' = readyState
  /\ Len(roomObjs') = Len(roomObjs)
  /\ \A r \in 1..Len(roomObjs) :
        /\ roomObjs'[r].doc = roomObjs[r].doc
        /\ roomObjs'[r].connections = roomObjs[r].connections
        /\ roomObjs'[r].timers = roomObjs[r].timers
        /\ Len(roomObjs'[r].presence) = Len(roomObjs[r].presence)
        /\ \A i \in 1..Len(roomObjs[r].presence) :
              roomObjs[r].presence[i].connection # c =>
                roomObjs'[r].presence[i] = roomObjs[r].presence[i]

\* the property with "keeps every other field" taken to the letter:
\* lastHeartbeat stays as well
C36_PartialPresenceAsStated ==
  [][\A c \in Conns : \A m \in PartialCursorMessages :
       (HasEntry(c) /\ CursorUpdate(c, m)) =>
          /\ PresenceGet(roomObjs'[RoomOf(c)].presence, c)
               = Carried(PresenceGet(roomObjs[RoomOf(c)].presence, c), m)
          /\ RestKept(c)]_vars

\* C36: Partial presence update.  A cursor_update of a connection that has a
\* presence entry, viewer or not, gives the fields it carries among
\* cursorPosition, selectionRange and isTyping the message's values, sets
\* lastHeartbeat to the current time and keeps every other field of the
\* entry; the entries of the other connections, the memberships and the
\* Room's doc stay as they are.
C36_PartialPresence ==
  [][\A c \in Conns : \A m \in PartialCursorMessages :
       (HasEntry(c) /\ CursorUpdate(c, m)) =>
          /\ PresenceGet(roomObjs'[RoomOf(c)].presence, c)
               = [Carried(PresenceGet(roomObjs[RoomOf(c)].presence, c), m)
                    EXCEPT !.lastHeartbeat = now]
          /\ RestKept(c)]_vars

\* the viewer's entry holds a cursor position and a typing flag set by one
\* frame and a selection set by a later one, at a later time
C36_Witness ==
  /\ connectionState["c3"].permission = "viewer"
  /\ LET e == PresenceGet(roomObjs[1].presence, "c3")
     IN /\ e.cursorPosition = 1
        /\ e.isTyping
        /\ e.selectionRange = [start |-> 1, end |-> 2]
        /\ e.lastHeartbeat > StartTime
        /\ e.userId = "u2"
  /\ budget = MaxFrames - 2
  /\ roomObjs[1].doc = {}

(***************************************************************************)
(* One Room object per document                                            *)
(***************************************************************************)
\* C37: Single Room per document.  Every Room object that holds a
\* connection, in its connections set or in its presence Map, is the Room
\* the registry has for that Room's document.
C37_SingleRoom ==
  \A r \in 1..Len(roomObjs) : \A c \in Conns :
    (Member(c, r) \/ PresenceHas(roomObjs[r].presence, c)) =>
       /\ RoomsHas(rooms, roomObjs[r].documentId)
       /\ RoomsGet(rooms, roomObjs[r].documentId) = r

(***************************************************************************)
(* What is written never goes back                                         *)
(***************************************************************************)
\* C38: Persisted state never regresses.  A snapshot written under a
\* document's cache key contains every update of the snapshot it replaces,
\* and a new auto-save row contains every update of the document's earlier
\* auto-save rows.
C38_NoRegression ==
  [][ /\ \A k \in DOMAIN cache :
           (k \in DOMAIN cache' /\ cache'[k] # cache[k]) =>
              decodeUpdate(cache[k]) \subseteq decodeUpdate(cache'[k])
      /\ Len(versions') > Len(versions) =>
           LET row == versions'[Len(versions')]
           IN \A i \in AutoSaves(row.documentId) :
                decodeUpdate(versions[i].snapshot) \subseteq decodeUpdate(row.snapshot) ]_vars

(***************************************************************************)
(* Registration after the close event                                      *)
(***************************************************************************)
\* C39: No ghost membership.  A connection whose close event has been
\* handled is in no Room's connections or presence and has no connectionState
\* entry.
C39_NoGhost ==
  \A c \in Conns : readyState[c] = "CLOSED" => Gone(c)

(***************************************************************************)
(* Updates that are never written                                          *)
(***************************************************************************)
\* the state of Room object r is contained in a snapshot of its document in
\* the cache or in an Auto-save row
Written(r) ==
  LET d == roomObjs[r].documentId
      k == getRedisKey(d)
  IN \/ k \in DOMAIN cache /\ roomObjs[r].doc \subseteq decodeUpdate(cache[k])
     \/ \E i \in AutoSaves(d) : roomObjs[r].doc \subseteq decodeUpdate(versions[i].snapshot)

\* C40: Persist liveness.  When nothing is left that could write without a
\* new update (no persist timer pending, no persistRoom call in flight),
\* every update applied to a Room is contained in a snapshot written to the
\* cache or to the durable store.
C40_PersistLiveness ==
  Quiesced => \A r \in 1..Len(roomObjs) : roomObjs[r].doc # {} => Written(r)


====
